---- MODULE Spec2Model ----
(***************************************************************************)
(* Model of the voice-command layer of BrushBuddy: the VoiceService        *)
(* session manager (src/unnamed/part_002, second class of the file, lines  *)
(* 226-941), its three backends (native Voice library, Web Speech          *)
(* recognizer, simulated) and the text-to-command classifier.              *)
(*                                                                         *)
(* JavaScript is single threaded: every handler below runs to completion,  *)
(* and an async method is split at each await it reaches.  Text is a       *)
(* sequence of one-character strings.  Confidence is in hundredths.        *)
(***************************************************************************)
EXTENDS Integers, Sequences, FiniteSets, TLC

(***************************************************************************)
(* Text helpers: the JavaScript string operations the classifier uses.     *)
(***************************************************************************)
UpperCase == <<"A","B","C","D","E","F","G","H","I","J","K","L","M",
               "N","O","P","Q","R","S","T","U","V","W","X","Y","Z">>

LowerCase == <<"a","b","c","d","e","f","g","h","i","j","k","l","m",
               "n","o","p","q","r","s","t","u","v","w","x","y","z">>

\* the characters \s matches, as far as the inputs of the model use them
WhiteSpace == {" ", "\t", "\n"}

\* the character class [.,!?;]
Punctuation == {".", ",", "!", "?", ";"}

toLowerCaseChar(c) ==
  IF \E i \in 1..26 : UpperCase[i] = c
  THEN LowerCase[CHOOSE i \in 1..26 : UpperCase[i] = c]
  ELSE c

toLowerCase(text) == [i \in 1..Len(text) |-> toLowerCaseChar(text[i])]

trim(text) ==
  LET solid == {i \in 1..Len(text) : text[i] \notin WhiteSpace}
  IN  IF solid = {} THEN <<>>
      ELSE SubSeq(text, CHOOSE i \in solid : \A j \in solid : i <= j,
                        CHOOSE i \in solid : \A j \in solid : i >= j)

\* .replace(/[.,!?;]/g, ' ')
replacePunctuation(text) ==
  [i \in 1..Len(text) |-> IF text[i] \in Punctuation THEN " " ELSE text[i]]

\* .replace(/\s+/g, ' '): every maximal run of whitespace becomes one space
collapseWhitespace(text) ==
  LET out[i \in 0..Len(text)] ==
        IF i = 0 THEN <<>>
        ELSE IF text[i] \notin WhiteSpace THEN Append(out[i-1], text[i])
        ELSE IF i = 1 \/ text[i-1] \notin WhiteSpace THEN Append(out[i-1], " ")
        ELSE out[i-1]
  IN  out[Len(text)]

\* variant of includes: the part must be at the start of the text
includesAtStart(text, part) ==
  Len(part) <= Len(text) /\ SubSeq(text, 1, Len(part)) = part

\* String.prototype.includes
includes(text, part) ==
  \E i \in 0..(Len(text) - Len(part)) : SubSeq(text, i + 1, i + Len(part)) = part

\* text.toLowerCase().trim(), then the punctuation and whitespace clean-up
cleanText(text) ==
  trim(collapseWhitespace(replacePunctuation(trim(toLowerCase(text)))))

(***************************************************************************)
(* The command table, in the insertion order Object.entries walks it.      *)
(***************************************************************************)
validCommands ==
  << [command |-> "next",
      variations |-> << <<"n", "e", "x", "t">>,
                       <<"c", "o", "n", "t", "i", "n", "u", "e">>,
                       <<"g", "o">>,
                       <<"p", "r", "o", "c", "e", "e", "d">>,
                       <<"m", "o", "v", "e", " ", "o", "n">>,
                       <<"k", "e", "e", "p", " ", "g", "o", "i", "n", "g">> >>],
     [command |-> "done",
      variations |-> << <<"d", "o", "n", "e">>,
                       <<"f", "i", "n", "i", "s", "h", "e", "d">>,
                       <<"c", "o", "m", "p", "l", "e", "t", "e">>,
                       <<"f", "i", "n", "i", "s", "h">>,
                       <<"r", "e", "a", "d", "y">>,
                       <<"a", "l", "l", " ", "d", "o", "n", "e">> >>],
     [command |-> "ready",
      variations |-> << <<"r", "e", "a", "d", "y">>,
                       <<"s", "e", "t">>,
                       <<"g", "o", " ", "a", "h", "e", "a", "d">>,
                       <<"i", "'", "m", " ", "r", "e", "a", "d", "y">>,
                       <<"l", "e", "t", "'", "s", " ", "d", "o", " ", "i", "t">> >>],
     [command |-> "finish",
      variations |-> << <<"f", "i", "n", "i", "s", "h">>,
                       <<"e", "n", "d">>,
                       <<"s", "t", "o", "p">>,
                       <<"f", "i", "n", "i", "s", "h", "e", "d">>,
                       <<"a", "l", "l", " ", "f", "i", "n", "i", "s", "h", "e", "d">> >>],
     [command |-> "ok",
      variations |-> << <<"o", "k">>,
                       <<"o", "k", "a", "y">>,
                       <<"y", "e", "s">>,
                       <<"y", "e", "a", "h">>,
                       <<"y", "e", "p">>,
                       <<"s", "u", "r", "e">> >>],
     [command |-> "start_brushing",
      variations |-> << <<"s", "t", "a", "r", "t", " ", "b", "r", "u", "s", "h", "i", "n", "g">>,
                       <<"b", "e", "g", "i", "n">>,
                       <<"s", "t", "a", "r", "t">>,
                       <<"l", "e", "t", "'", "s", " ", "g", "o">>,
                       <<"l", "e", "t", "'", "s", " ", "s", "t", "a", "r", "t">>,
                       <<"b", "e", "g", "i", "n", " ", "b", "r", "u", "s", "h", "i", "n", "g">> >>],
     [command |-> "start_over",
      variations |-> << <<"s", "t", "a", "r", "t", " ", "o", "v", "e", "r">>,
                       <<"r", "e", "s", "t", "a", "r", "t">>,
                       <<"a", "g", "a", "i", "n">>,
                       <<"r", "e", "s", "e", "t">>,
                       <<"d", "o", " ", "i", "t", " ", "a", "g", "a", "i", "n">>,
                       <<"s", "t", "a", "r", "t", " ", "a", "g", "a", "i", "n">> >>] >>


\* variant of unknownResult: reports the cleaned text instead of the input
unknownResultCleaned(text) ==
  [command |-> "unknown", confidence |-> 0, originalText |-> cleanText(text)]

\* lines 641-647
unknownResult(text) == [command |-> "unknown", confidence |-> 0, originalText |-> text]

\* variant of matchFrom: tier by tier over the whole table, exact matches
\* of any category before containment matches, those before reverse matches
matchFromTiered(cleanedText, text, ci, vi) ==
  LET phrases(k) == {validCommands[k].variations[v] :
                       v \in DOMAIN validCommands[k].variations}
      exact == {k \in DOMAIN validCommands : cleanedText \in phrases(k)}
      part  == {k \in DOMAIN validCommands :
                  \E ph \in phrases(k) : includes(cleanedText, ph)}
      rev   == {k \in DOMAIN validCommands :
                  \E ph \in phrases(k) :
                     includes(ph, cleanedText) /\ Len(cleanedText) > 2}
      first(S) == CHOOSE k \in S : \A j \in S : k <= j
  IN  IF exact # {}
      THEN [command |-> validCommands[first(exact)].command, confidence |-> 95,
            originalText |-> text]
      ELSE IF part # {}
      THEN [command |-> validCommands[first(part)].command, confidence |-> 80,
            originalText |-> text]
      ELSE IF rev # {}
      THEN [command |-> validCommands[first(rev)].command, confidence |-> 70,
            originalText |-> text]
      ELSE unknownResult(text)

\* variant of matchFrom: the reverse test without the length guard
RECURSIVE matchFromUnguarded(_, _, _, _)
matchFromUnguarded(cleanedText, text, ci, vi) ==
  IF ci > Len(validCommands) THEN unknownResult(text)
  ELSE IF vi > Len(validCommands[ci].variations)
       THEN matchFromUnguarded(cleanedText, text, ci + 1, 1)
  ELSE LET command == validCommands[ci].command
           variation == validCommands[ci].variations[vi]
       IN  IF cleanedText = variation
           THEN [command |-> command, confidence |-> 95, originalText |-> text]
           ELSE IF includes(cleanedText, variation)
           THEN [command |-> command, confidence |-> 80, originalText |-> text]
           ELSE IF includes(variation, cleanedText)
           THEN [command |-> command, confidence |-> 70, originalText |-> text]
           ELSE matchFromUnguarded(cleanedText, text, ci, vi + 1)

\* the two nested loops of processRecognizedText, from category ci, variation vi
RECURSIVE matchFrom(_, _, _, _)
matchFrom(cleanedText, text, ci, vi) ==
  IF ci > Len(validCommands) THEN unknownResult(text)
  ELSE IF vi > Len(validCommands[ci].variations)
       THEN matchFrom(cleanedText, text, ci + 1, 1)
  ELSE LET command == validCommands[ci].command
           variation == validCommands[ci].variations[vi]
       IN  IF cleanedText = variation
           THEN [command |-> command, confidence |-> 95, originalText |-> text]
           ELSE IF includes(cleanedText, variation)
           THEN [command |-> command, confidence |-> 80, originalText |-> text]
           ELSE IF includes(variation, cleanedText) /\ Len(cleanedText) > 2
           THEN [command |-> command, confidence |-> 70, originalText |-> text]
           ELSE matchFrom(cleanedText, text, ci, vi + 1)

processRecognizedText(text) == matchFrom(cleanText(text), text, 1, 1)

(***************************************************************************)
(* Inputs and bounds of the model.                                         *)
(***************************************************************************)
\* "next" and "uh what": the transcripts the model feeds in
Texts ==
  { <<"n", "e", "x", "t">>,
    <<"u", "h", " ", "w", "h", "a", "t">> }

\* processRecognizedText on those transcripts
classified == [text \in Texts |-> processRecognizedText(text)]

\* suspended calls and pending timers that may exist at the same time: the
\* initialize() and startListening() calls waiting at an await, the 100 ms
\* end timers and the 1000 ms restart timers
MaxPending == 2

(***************************************************************************)
(* Callback sets.  A VoiceServiceCallbacks object maps each key to the     *)
(* caller's function or to undefined (0); the number tells whose function  *)
(* it is.  The objects are never mutated, only replaced.                   *)
(***************************************************************************)
Keys == {"onStart", "onResult", "onError", "onEnd"}

\* {}
NoCallbacks == [k \in Keys |-> 0]

\* a caller that supplies all four callbacks
cb1 == [k \in Keys |-> 1]

\* a caller that supplies onResult and onEnd only
cb2 == [onStart |-> 0, onResult |-> 2, onError |-> 0, onEnd |-> 2]

CallbackArgs == {NoCallbacks, cb1, cb2}

\* forceSimulateVoiceInput called without its optional second argument
Undefined == [k \in Keys |-> -1]

NoArg == [command |-> "-", confidence |-> 0, originalText |-> <<>>]

ErrorArg(message) == [command |-> message, confidence |-> 0, originalText |-> <<>>]

\* cbs.key?.(arg): the invocations made, as a sequence of at most one
Invoke(cbs, key, arg) ==
  IF cbs[key] = 0 THEN <<>> ELSE << [cb |-> key, id |-> cbs[key], arg |-> arg] >>

VARIABLES
  Voice,                 \* the native library was loaded (Voice # null)
  PlatformOS,            \* Platform.OS, "web" or "native" (ios, android)
  WebSpeechRecognition,  \* window.SpeechRecognition is defined
  isListening, isAvailable, callbacks, useRealVoice, useWebSpeech,
  isInitialized,
  webRecognition,        \* this.webRecognition # null
  initAwait,             \* suspended initialize() calls
  startPending,          \* suspended startListening() calls whose Voice.start rejects
  rec,                   \* the real backend's recognition
  endTimers,             \* pending 100 ms timers, oldest first
  restartTimers,         \* pending 1000 ms no-speech restart timers
  last,                  \* the step just taken: what it was given, did and returned
  sess,                  \* callbacks fired since the current session began
  screen,                \* the RoutineScreen that uses the service, if mounted
  speech                 \* speechService and the synthesizer it drives

env == <<Voice, PlatformOS, WebSpeechRecognition>>

flags == <<isAvailable, isInitialized, useRealVoice, useWebSpeech>>

vars == <<Voice, PlatformOS, WebSpeechRecognition, isListening, isAvailable,
          callbacks, useRealVoice, useWebSpeech, isInitialized, webRecognition,
          initAwait, startPending, rec, endTimers, restartTimers,
          last, sess, screen, speech>>

\* suspended calls and pending timers
Pending ==
  initAwait + startPending
    + Len(endTimers) + restartTimers

\* the record of a step
Done(op, path, arg, text, fired, backend, ret, escaped) ==
  [op |-> op, path |-> path, arg |-> arg, text |-> text, fired |-> fired,
   backend |-> backend, ret |-> ret, escaped |-> escaped, ensured |-> FALSE]

\* Where the current session stands in the order onStart, onResult*, onEnd:
\* "begun" (nothing fired yet), "started", "resulted" (an onResult fired
\* and no onStart: the caller may have registered none), "ended", or
\* "broken" once a callback fired out of that order.  A session begins when startListening
\* starts one and when a simulated input forces the listening state.  The
\* observation is switched "off" in the specifications that do not need it.
NewSession == IF sess = "off" THEN "off" ELSE "begun"

ObserveOne(s, e) ==
  CASE s \in {"off", "broken"} -> s
    [] e.cb = "onStart" -> IF s = "begun" THEN "started" ELSE "broken"
    [] e.cb = "onResult" -> IF s = "begun" THEN "resulted"
                            ELSE IF s = "ended" THEN "broken" ELSE s
    [] e.cb = "onEnd" -> IF s = "ended" THEN "broken" ELSE "ended"
    [] OTHER -> s

RECURSIVE Observe(_, _)
Observe(s, fired) ==
  IF fired = <<>> THEN s ELSE Observe(ObserveOne(s, Head(fired)), Tail(fired))

\* No RoutineScreen is mounted: its state before the first render (useState
\* initial values), no utterance being spoken, no startListening timer set
Unmounted ==
  [mounted |-> FALSE, currentStepId |-> 1, isSpeaking |-> FALSE,
   utterance |-> "none", timers |-> [step |-> 0, conclusion |-> 0]]

\* MaxUtterances bounds the speak() calls followed
MaxUtterances == 3

\* speechService after construction (speechService.ts line 11), with an idle
\* synthesizer: isSpeaking is the private flag; synth is the synthesizer's
\* queue of utterances, oldest first, each started or not; stopped holds
\* the utterances whose onStopped the synthesizer has yet to report;
\* promise is the state of the promise of each speak() call.  The field
\* currentSpeechId is written and never read (lines 12, 33, 49, 67).
Silent ==
  [isSpeaking |-> FALSE, synth |-> <<>>, stopped |-> {}, issued |-> 0,
   promise |-> [u \in 1..MaxUtterances |-> "none"]]

\* The module-level inputs (lines 191-209, Platform.OS).  Off the web
\* WebSpeechRecognition is read nowhere (line 286), so one native platform,
\* with the browser recognizer defined, stands for both.
Environments ==
  { [Voice |-> TRUE, PlatformOS |-> "native", WebSpeechRecognition |-> TRUE],
    [Voice |-> TRUE, PlatformOS |-> "web", WebSpeechRecognition |-> TRUE],
    [Voice |-> TRUE, PlatformOS |-> "web", WebSpeechRecognition |-> FALSE],
    [Voice |-> FALSE, PlatformOS |-> "native", WebSpeechRecognition |-> FALSE] }

\* the state after construction (lines 227-239), in any environment
Constructed ==
  /\ \E e \in Environments :
       /\ Voice = e.Voice
       /\ PlatformOS = e.PlatformOS
       /\ WebSpeechRecognition = e.WebSpeechRecognition
  /\ isListening = FALSE
  /\ isAvailable = FALSE
  /\ callbacks = NoCallbacks
  /\ useRealVoice = FALSE
  /\ useWebSpeech = FALSE
  /\ isInitialized = FALSE
  /\ webRecognition = FALSE
  /\ initAwait = 0
  /\ startPending = 0
  /\ rec = "idle"
  /\ endTimers = <<>>
  /\ restartTimers = 0
  /\ last = Done("new", "-", NoCallbacks, <<>>, <<>>, <<>>, "none", FALSE)
  /\ screen = Unmounted
  /\ speech = Silent

Init == Constructed /\ sess = "off"

\* the same, with the session order observed
InitSessions == Constructed /\ sess = "begun"

(***************************************************************************)
(* initialize()                                                            *)
(***************************************************************************)
\* initializeModes with the browser recognizer constructed whenever it is
\* defined, whatever the platform and the native probe (line 286 tests
\* WebSpeechRecognition only, and line 289 is dropped)
initializeModesBoth(native, webThrows) ==
  LET real1 == IF native = "ok" THEN TRUE ELSE useRealVoice
      web1 == IF native = "ok" THEN FALSE ELSE useWebSpeech
      webOk == WebSpeechRecognition /\ ~webThrows
  IN  [useRealVoice |-> real1,
       useWebSpeech |-> IF webOk THEN TRUE ELSE web1,
       webRecognition |-> webRecognition \/ webOk]

\* initializeModes with the browser tried after a failed native probe on
\* every platform (line 286 without its Platform.OS test)
initializeModesChain(native, webThrows) ==
  LET real1 == IF native = "ok" THEN TRUE ELSE useRealVoice
      web1 == IF native = "ok" THEN FALSE ELSE useWebSpeech
      tryWeb == ~real1 /\ WebSpeechRecognition
      webOk == tryWeb /\ ~webThrows
      real2 == IF webOk THEN FALSE ELSE real1
      web2 == IF webOk THEN TRUE ELSE web1
  IN  [useRealVoice |-> IF ~real2 /\ ~web2 THEN FALSE ELSE real2,
       useWebSpeech |-> IF ~real2 /\ ~web2 THEN FALSE ELSE web2,
       webRecognition |-> webRecognition \/ webOk]

\* The mode flags and recognizer after lines 271-315, given how the native
\* probe went ("ok", "failed", or "skipped" when line 272 is false) and
\* whether new WebSpeechRecognition() throws.  The outer catch (309-315)
\* is not reachable: every statement that can throw sits in an inner try.
initializeModes(native, webThrows) ==
  LET real1 == IF native = "ok" THEN TRUE ELSE useRealVoice
      web1 == IF native = "ok" THEN FALSE ELSE useWebSpeech
      tryWeb == ~real1 /\ PlatformOS = "web" /\ WebSpeechRecognition
      webOk == tryWeb /\ ~webThrows
      real2 == IF webOk THEN FALSE ELSE real1
      web2 == IF webOk THEN TRUE ELSE web1
  IN  [useRealVoice |-> IF ~real2 /\ ~web2 THEN FALSE ELSE real2,
       useWebSpeech |-> IF ~real2 /\ ~web2 THEN FALSE ELSE web2,
       webRecognition |-> webRecognition \/ webOk]

\* what initialize() returns on the already-initialized path (line 265)
initializeCached == isAvailable

\* lines 271-323 once the native probe, if any, has settled; the step is
\* recorded by what the probes did: the native probe succeeded or failed,
\* or was skipped and new WebSpeechRecognition() would throw or construct
InitializeFinish(native, webThrows) ==
  LET m == initializeModes(native, webThrows)
  IN  /\ useRealVoice' = m.useRealVoice
      /\ useWebSpeech' = m.useWebSpeech
      /\ webRecognition' = m.webRecognition
      /\ isAvailable' = TRUE
      /\ isInitialized' = TRUE
      /\ last' = Done("initialize",
                      IF native = "ok" THEN "nativeOk"
                      ELSE IF native = "failed" THEN "nativeFailed"
                      ELSE IF webThrows THEN "webThrows" ELSE "webConstructs",
                      NoCallbacks, <<>>, <<>>, <<>>, "true", FALSE)

\* initialize() up to its first await, or to its end when it reaches none
Initialize ==
  /\ IF isInitialized
     THEN /\ last' = Done("initialize", "cached", NoCallbacks, <<>>, <<>>, <<>>,
                          IF initializeCached THEN "true" ELSE "false", FALSE)
          /\ UNCHANGED <<flags, webRecognition, initAwait>>
     ELSE IF Voice /\ PlatformOS # "web"
     THEN /\ Pending < MaxPending
          /\ initAwait' = initAwait + 1
          /\ last' = Done("initialize", "await", NoCallbacks, <<>>, <<>>,
                          <<"Voice.isAvailable">>, "none", FALSE)
          /\ UNCHANGED <<flags, webRecognition>>
     ELSE /\ \E webThrows \in BOOLEAN : InitializeFinish("skipped", webThrows)
          /\ UNCHANGED initAwait
  /\ UNCHANGED <<env, speech, screen, isListening, callbacks, startPending, rec, endTimers,
                 restartTimers, sess>>

\* The awaited probe of initializeRealVoice settles (lines 342-362): "ok"
\* when Voice.isAvailable() answers true, or throws and
\* Voice.isRecognitionAvailable() answers true; "failed" otherwise.  The
\* suspended call touches no state between its two awaits, so they are one
\* step here.
InitializeResume ==
  /\ initAwait > 0
  /\ initAwait' = initAwait - 1
  /\ \E native \in {"ok", "failed"} : InitializeFinish(native, FALSE)
  /\ UNCHANGED <<env, speech, screen, isListening, callbacks, startPending, rec, endTimers,
                 restartTimers, sess>>

(***************************************************************************)
(* ensureAvailable()                                                       *)
(***************************************************************************)
\* ensureAvailable() without lines 785-786: the mode flags are left alone
ensureAvailableKeepsMode ==
  [isAvailable |-> TRUE, isInitialized |-> IF isAvailable THEN isInitialized ELSE TRUE,
   useRealVoice |-> useRealVoice, useWebSpeech |-> useWebSpeech]

\* ensureAvailable() that goes back to the browser mode when a recognizer
\* was constructed earlier
ensureAvailableRestoresWeb ==
  IF ~isAvailable
  THEN [isAvailable |-> TRUE, isInitialized |-> TRUE,
        useRealVoice |-> FALSE, useWebSpeech |-> webRecognition]
  ELSE [isAvailable |-> isAvailable, isInitialized |-> isInitialized,
        useRealVoice |-> useRealVoice, useWebSpeech |-> useWebSpeech]

\* the four flags after ensureAvailable() (lines 781-787)
ensureAvailable ==
  IF ~isAvailable
  THEN [isAvailable |-> TRUE, isInitialized |-> TRUE,
        useRealVoice |-> FALSE, useWebSpeech |-> FALSE]
  ELSE [isAvailable |-> isAvailable, isInitialized |-> isInitialized,
        useRealVoice |-> useRealVoice, useWebSpeech |-> useWebSpeech]

SetFlags(f) ==
  /\ isAvailable' = f.isAvailable
  /\ isInitialized' = f.isInitialized
  /\ useRealVoice' = f.useRealVoice
  /\ useWebSpeech' = f.useWebSpeech

EnsureAvailable ==
  /\ SetFlags(ensureAvailable)
  /\ last' = Done("ensureAvailable", "-", NoCallbacks, <<>>, <<>>, <<>>, "none", FALSE)
  /\ UNCHANGED <<env, speech, screen, isListening, callbacks, webRecognition, initAwait,
                 startPending, rec, endTimers, restartTimers, sess>>

(***************************************************************************)
(* startListening(callbacks)                                               *)
(***************************************************************************)
\* the spread with its operands swapped: { ...callbacks, ...this.callbacks }
mergeCallbacksOldWins(old, new) ==
  [k \in Keys |-> IF old[k] # 0 THEN old[k] ELSE new[k]]

\* { ...this.callbacks, ...callbacks } (line 426)
mergeCallbacks(old, new) == [k \in Keys |-> IF new[k] # 0 THEN new[k] ELSE old[k]]

\* how many of the onStart invocations of the simulated start path may throw
StartThrows(cbs) == IF cbs["onStart"] = 0 THEN {0} ELSE 0..2

\* startSimulatedListening() inside startListening's outer try (lines 436-464):
\* onStart is invoked; if it throws, the outer catch runs fallbackToSimulated,
\* which invokes it again; a second throw leaves startListening.
simulatedStart(cbs, throws) ==
  [fired |-> IF throws = 0 THEN Invoke(cbs, "onStart", NoArg)
             ELSE Invoke(cbs, "onStart", NoArg) \o Invoke(cbs, "onStart", NoArg),
   escaped |-> throws = 2]

\* fallbackToSimulated() that also marks the service unavailable
fallbackToSimulatedUnavailable(f) ==
  [f EXCEPT !.useRealVoice = FALSE, !.useWebSpeech = FALSE, !.isAvailable = FALSE]

\* the mode flags after fallbackToSimulated() (lines 489-490)
fallbackToSimulated(f) == [f EXCEPT !.useRealVoice = FALSE, !.useWebSpeech = FALSE]

\* the record of a startListening call, with whether lines 418-421 had to
\* force the availability
Started(d) == [d EXCEPT !.ensured = ~isAvailable]

\* lines 417-465, for a call named op; cb is its argument
StartListeningBody(op, cb) ==
  LET e == ensureAvailable
  IN
  IF isListening
  THEN /\ callbacks' = mergeCallbacks(callbacks, cb)
       /\ SetFlags(e)
       /\ last' = Started(Done(op, "alreadyListening", cb, <<>>, <<>>, <<>>, "none", FALSE))
       /\ UNCHANGED <<isListening, startPending, rec, sess>>
  ELSE
    /\ callbacks' = cb
    /\ isListening' = TRUE
    /\ IF e.useRealVoice /\ Voice
       THEN \/ /\ rec' = "started"             \* Voice.start resolves; the library
                                       \* replaces a recognition still active
               /\ SetFlags(e)
               /\ sess' = NewSession
               /\ last' = Started(Done(op, "native", cb, <<>>, <<>>, <<"Voice.start">>,
                               "none", FALSE))
               /\ UNCHANGED startPending
            \/ /\ Pending < MaxPending   \* Voice.start will reject
               /\ startPending' = startPending + 1
               /\ SetFlags(e)
               /\ sess' = NewSession
               /\ last' = Started(Done(op, "nativeAwait", cb, <<>>, <<>>, <<"Voice.start">>,
                               "none", FALSE))
               /\ UNCHANGED <<rec>>
            \/ \E throws \in StartThrows(cb) :    \* Voice.start throws
                 LET s == simulatedStart(cb, throws)
                 IN  /\ SetFlags(fallbackToSimulated(e))
                     /\ sess' = Observe(NewSession, s.fired)
                     /\ last' = Started(Done(op, "nativeFallback", cb, <<>>, s.fired,
                                     <<"Voice.start">>, "none", s.escaped))
                     /\ UNCHANGED <<startPending, rec>>
       ELSE IF e.useWebSpeech /\ webRecognition
       THEN \/ /\ rec = "idle"                    \* webRecognition.start() returns
               /\ rec' = "started"
               /\ SetFlags(e)
               /\ sess' = NewSession
               /\ last' = Started(Done(op, "web", cb, <<>>, <<>>, <<"webRecognition.start">>,
                               "none", FALSE))
               /\ UNCHANGED <<startPending>>
            \/ \E throws \in StartThrows(cb) :    \* webRecognition.start() throws
                 LET s == simulatedStart(cb, throws)
                 IN  /\ SetFlags(fallbackToSimulated(e))
                     /\ sess' = Observe(NewSession, s.fired)
                     /\ last' = Started(Done(op, "webFallback", cb, <<>>, s.fired,
                                     <<"webRecognition.start">>, "none", s.escaped))
                     /\ UNCHANGED <<startPending, rec>>
       ELSE \E throws \in StartThrows(cb) :
              LET s == simulatedStart(cb, throws)
              IN  /\ SetFlags(IF throws = 0 THEN e ELSE fallbackToSimulated(e))
                  /\ sess' = Observe(NewSession, s.fired)
                  /\ last' = Started(Done(op, "simulated", cb, <<>>, s.fired, <<>>,
                                  "none", s.escaped))
                  /\ UNCHANGED <<startPending, rec>>

StartListening ==
  /\ \E cb \in CallbackArgs : StartListeningBody("startListening", cb)
  /\ UNCHANGED <<env, speech, screen, webRecognition, initAwait, endTimers, restartTimers>>

\* a suspended startListening resumes with Voice.start rejected: the inner
\* catch (442-445) runs fallbackToSimulated on the state of that moment
StartListeningRejected ==
  /\ startPending > 0
  /\ startPending' = startPending - 1
  /\ \E throws \in StartThrows(callbacks) :
       LET s == simulatedStart(callbacks, throws)
       IN  /\ SetFlags(fallbackToSimulated(
                [isAvailable |-> isAvailable, isInitialized |-> isInitialized,
                 useRealVoice |-> useRealVoice, useWebSpeech |-> useWebSpeech]))
           /\ sess' = Observe(sess, s.fired)
           /\ last' = Done("startListeningRejected", "-", NoCallbacks, <<>>, s.fired,
                           <<>>, "none", s.escaped)
  /\ UNCHANGED <<env, speech, screen, isListening, callbacks, webRecognition, initAwait, rec,
                 endTimers, restartTimers>>

(***************************************************************************)
(* stopListening(), forceResetListeningState(), cleanup()                  *)
(***************************************************************************)
\* the recognition after the backend accepted stop()
recStopped == IF rec \in {"started", "running"} THEN "stopping" ELSE rec

\* which backend lines 508-520 address
activeBackend ==
  IF useRealVoice /\ Voice THEN "native"
  ELSE IF useWebSpeech /\ webRecognition THEN "web"
  ELSE "simulated"

\* the outcomes of one stopListening() call made while listening: whether
\* the backend's stop() throws, and how many onEnd invocations throw
StopOutcomes ==
  { o \in [stopThrows : BOOLEAN, endThrows : 0..2] :
      /\ o.stopThrows => activeBackend # "simulated" /\ o.endThrows <= 1
      /\ o.endThrows > 0 => callbacks["onEnd"] # 0
      /\ (activeBackend # "simulated" /\ ~o.stopThrows) => o.endThrows = 0 }

\* stopListening() that invokes onEnd itself in every mode
stopListeningAlwaysEnds(o) ==
  LET end == Invoke(callbacks, "onEnd", NoArg)
      call == IF activeBackend = "native" THEN <<"Voice.stop">>
              ELSE IF activeBackend = "web" THEN <<"webRecognition.stop">>
              ELSE <<>>
  IN  IF o.stopThrows
      THEN [fired |-> end, backend |-> call, rec |-> rec, caught |-> TRUE,
            escaped |-> o.endThrows = 1, isListening |-> FALSE]
      ELSE IF o.endThrows = 0
      THEN [fired |-> end, backend |-> call, rec |-> recStopped,
            caught |-> FALSE, escaped |-> FALSE, isListening |-> FALSE]
      ELSE [fired |-> end \o end, backend |-> call, rec |-> recStopped,
            caught |-> TRUE, escaped |-> o.endThrows = 2, isListening |-> FALSE]

\* stopListening() whose catch block does not reset the listening flag
stopListeningCatchKeepsFlag(o) ==
  LET end == Invoke(callbacks, "onEnd", NoArg)
      call == IF activeBackend = "native" THEN <<"Voice.stop">>
              ELSE IF activeBackend = "web" THEN <<"webRecognition.stop">>
              ELSE <<>>
  IN  IF activeBackend # "simulated"
      THEN IF o.stopThrows
           THEN [fired |-> end, backend |-> call, rec |-> rec, caught |-> TRUE,
                 escaped |-> o.endThrows = 1, isListening |-> TRUE]
           ELSE [fired |-> <<>>, backend |-> call, rec |-> recStopped,
                 caught |-> FALSE, escaped |-> FALSE, isListening |-> FALSE]
      ELSE IF o.endThrows = 0
           THEN [fired |-> end, backend |-> call, rec |-> rec, caught |-> FALSE,
                 escaped |-> FALSE, isListening |-> FALSE]
           ELSE [fired |-> end \o end, backend |-> call, rec |-> rec,
                 caught |-> TRUE, escaped |-> o.endThrows = 2,
                 isListening |-> TRUE]

\* lines 505-533 under outcome o: the callbacks invoked, the backend call
\* made, the recognition afterwards, whether the catch block ran and whether
\* an exception left stopListening
stopListening(o) ==
  LET end == Invoke(callbacks, "onEnd", NoArg)
      call == IF activeBackend = "native" THEN <<"Voice.stop">>
              ELSE IF activeBackend = "web" THEN <<"webRecognition.stop">>
              ELSE <<>>
  IN  IF activeBackend # "simulated"
      THEN IF o.stopThrows
           THEN [fired |-> end, backend |-> call, rec |-> rec, caught |-> TRUE,
                 escaped |-> o.endThrows = 1, isListening |-> FALSE]
           ELSE [fired |-> <<>>, backend |-> call, rec |-> recStopped,
                 caught |-> FALSE, escaped |-> FALSE, isListening |-> FALSE]
      ELSE IF o.endThrows = 0
           THEN [fired |-> end, backend |-> call, rec |-> rec, caught |-> FALSE,
                 escaped |-> FALSE, isListening |-> FALSE]
           ELSE [fired |-> end \o end, backend |-> call, rec |-> rec,
                 caught |-> TRUE, escaped |-> o.endThrows = 2,
                 isListening |-> FALSE]

StopPath(r) == IF r.escaped THEN "escaped" ELSE IF r.caught THEN "caught" ELSE "stopped"

StopListening ==
  /\ IF ~isListening
     THEN /\ last' = Done("stopListening", "notListening", NoCallbacks, <<>>, <<>>,
                          <<>>, "none", FALSE)
          /\ UNCHANGED <<isListening, rec, sess>>
     ELSE \E o \in StopOutcomes :
            LET r == stopListening(o)
            IN  /\ isListening' = r.isListening
                /\ rec' = r.rec
                /\ sess' = Observe(sess, r.fired)
                /\ last' = Done("stopListening", StopPath(r), NoCallbacks, <<>>,
                                r.fired, r.backend, "none", r.escaped)
  /\ UNCHANGED <<env, speech, screen, flags, callbacks, webRecognition, initAwait, startPending,
                 endTimers, restartTimers>>

\* the reset without its this.callbacks = {}
clearedCallbacksKept(escaped) == callbacks

\* this.callbacks = {} (lines 805, 836), reached unless stopListening() threw
clearedCallbacks(escaped) == IF escaped THEN callbacks ELSE NoCallbacks

\* lines 794-809: an exception leaving stopListening() skips the rest
ForceResetListeningState ==
  /\ IF ~isListening
     THEN /\ callbacks' = clearedCallbacks(FALSE)
          /\ last' = Done("forceResetListeningState", "notListening", NoCallbacks,
                          <<>>, <<>>, <<>>, "none", FALSE)
          /\ UNCHANGED <<isListening, rec, sess>>
     ELSE \E o \in StopOutcomes :
            LET r == stopListening(o)
            IN  /\ isListening' = r.isListening
                /\ rec' = r.rec
                /\ callbacks' = clearedCallbacks(r.escaped)
                /\ sess' = Observe(sess, r.fired)
                /\ last' = Done("forceResetListeningState", StopPath(r),
                                NoCallbacks, <<>>, r.fired, r.backend, "none",
                                r.escaped)
  /\ UNCHANGED <<env, speech, screen, flags, webRecognition, initAwait, startPending, endTimers, restartTimers>>

\* cleanup() that resets isAvailable and leaves isInitialized set
cleanupFlagsKeepsInitialized(f) == [f EXCEPT !.isAvailable = FALSE]

\* lines 826-836 of cleanup(), after stopListening() returned: the flags,
\* given the ones before
cleanupFlags(f) == [f EXCEPT !.isInitialized = FALSE, !.isAvailable = FALSE]

CurrentFlags ==
  [isAvailable |-> isAvailable, isInitialized |-> isInitialized,
   useRealVoice |-> useRealVoice, useWebSpeech |-> useWebSpeech]

\* lines 823-837; Voice.destroy() may throw, which is caught
Cleanup ==
  /\ \E o \in (IF isListening THEN StopOutcomes
               ELSE {[stopThrows |-> FALSE, endThrows |-> 0]}) :
     \E destroyThrows \in (IF useRealVoice /\ Voice THEN BOOLEAN ELSE {FALSE}) :
       LET r == IF isListening THEN stopListening(o)
                ELSE [fired |-> <<>>, backend |-> <<>>, rec |-> rec,
                      caught |-> FALSE, escaped |-> FALSE, isListening |-> FALSE]
           destroyed == useRealVoice /\ Voice /\ ~r.escaped /\ ~destroyThrows
       IN  /\ destroyThrows => ~r.escaped
           /\ isListening' = r.isListening
           /\ rec' = IF destroyed THEN "idle" ELSE r.rec
           /\ SetFlags(IF r.escaped THEN CurrentFlags ELSE cleanupFlags(CurrentFlags))
           /\ callbacks' = clearedCallbacks(r.escaped)
           /\ sess' = Observe(sess, r.fired)
           /\ last' = Done("cleanup", StopPath(r), NoCallbacks, <<>>, r.fired,
                           r.backend \o (IF useRealVoice /\ Voice /\ ~r.escaped
                                         THEN <<"Voice.destroy">> ELSE <<>>),
                           "none", r.escaped)
  /\ UNCHANGED <<env, speech, screen, webRecognition, initAwait, startPending, endTimers,
                 restartTimers>>

(***************************************************************************)
(* Events of the real backend.  A recognition is "idle", "started" (start  *)
(* was accepted), "running" (its start event was delivered), "stopping"    *)
(* (stop was accepted; a result may still come) or "ending" (only its end  *)
(* event is still to come).  The native library delivers to onSpeech*, the *)
(* browser recognizer to webRecognition.on*.                               *)
(***************************************************************************)
\* onSpeechStart (549-552), webRecognition.onstart (380-383)
BackendStart ==
  /\ rec = "started"
  /\ rec' = "running"
  /\ LET fired == Invoke(callbacks, "onStart", NoArg)
     IN  /\ sess' = Observe(sess, fired)
         /\ last' = Done("onSpeechStart", "-", NoCallbacks, <<>>, fired, <<>>,
                         "none", FALSE)
  /\ UNCHANGED <<env, speech, screen, flags, isListening, callbacks, webRecognition, initAwait,
                 startPending, endTimers, restartTimers>>

\* onSpeechResults (560-567), webRecognition.onresult (385-393); the empty
\* text stands for an event without results
BackendResults ==
  /\ rec \in {"running", "stopping"}
  /\ rec' = "ending"
  /\ \E text \in Texts \cup {<<>>} :
       LET fired == IF text = <<>> THEN <<>>
                    ELSE Invoke(callbacks, "onResult", classified[text])
       IN  /\ sess' = Observe(sess, fired)
           /\ last' = Done("onSpeechResults", "-", NoCallbacks, text, fired, <<>>,
                           "none", FALSE)
  /\ UNCHANGED <<env, speech, screen, flags, isListening, callbacks, webRecognition, initAwait,
                 startPending, endTimers, restartTimers>>

\* the handler onSpeechEnd (554-558) and webRecognition.onend (395-399)
SpeechEnd(op) ==
  /\ isListening' = FALSE
  /\ LET fired == Invoke(callbacks, "onEnd", NoArg)
     IN  /\ sess' = Observe(sess, fired)
         /\ last' = Done(op, "-", NoCallbacks, <<>>, fired, <<>>, "none", FALSE)

BackendEnd ==
  /\ rec \in {"running", "stopping", "ending"}
  /\ rec' = "idle"
  /\ SpeechEnd("onSpeechEnd")
  /\ UNCHANGED <<env, speech, screen, flags, callbacks, webRecognition, initAwait, startPending,
                 endTimers, restartTimers>>

\* the restart test of line 579 applied by the browser's onerror too
errorRestartsOnWeb(kind) == kind = "No speech input"

\* no restart test at all: every error goes to line 587
errorRestartsNever(kind) == FALSE

\* whether the error handler schedules a restart instead of reporting: the
\* native handler does for a no-speech error (line 579), the browser's
\* onerror (401-405) never does
errorRestarts(kind) == PlatformOS # "web" /\ kind = "No speech input"

\* onSpeechError (574-589) and webRecognition.onerror (401-405); after its
\* error event the browser recognizer still delivers its end event
BackendError ==
  /\ rec \in {"started", "running", "stopping"}
  /\ isListening' = FALSE
  /\ \E kind \in {"No speech input", "other"} :
       IF errorRestarts(kind)
       THEN /\ Pending < MaxPending
            /\ restartTimers' = restartTimers + 1
            /\ rec' = "idle"
            /\ last' = Done("onSpeechError", "restartScheduled", NoCallbacks, <<>>,
                            <<>>, <<>>, "none", FALSE)
            /\ UNCHANGED sess
       ELSE LET fired == Invoke(callbacks, "onError", ErrorArg(kind))
            IN  /\ rec' = IF PlatformOS = "web" THEN "ending" ELSE "idle"
                /\ sess' = Observe(sess, fired)
                /\ last' = Done("onSpeechError", "reported", NoCallbacks, <<>>,
                                fired, <<>>, "none", FALSE)
                /\ UNCHANGED restartTimers
  /\ UNCHANGED <<env, speech, screen, flags, callbacks, webRecognition, initAwait, startPending,
                 endTimers>>

\* the 1000 ms timer of onSpeechError fires (581-585)
RestartTimer ==
  /\ restartTimers > 0
  /\ restartTimers' = restartTimers - 1
  /\ IF ~isListening
     THEN StartListeningBody("restartTimer", callbacks)
     ELSE /\ last' = Done("restartTimer", "skipped", NoCallbacks, <<>>, <<>>, <<>>,
                          "none", FALSE)
          /\ UNCHANGED <<flags, isListening, callbacks, startPending, rec,
                         sess>>
  /\ UNCHANGED <<env, speech, screen, webRecognition, initAwait, endTimers>>

(***************************************************************************)
(* simulateVoiceInput(text), forceSimulateVoiceInput(text, callbacks?)     *)
(***************************************************************************)
\* an endTimers entry of a simulateVoiceInput timer: it reads this.callbacks
\* when it fires; a forceSimulateVoiceInput timer holds the onEnd it captured
ReadsCurrent == -1

\* lines 654-691; nothing is caught here, so a throwing callback ends the call
SimulateVoiceInput ==
  /\ Pending < MaxPending
  /\ \E text \in Texts :
     \E thrower \in {"none", "onStart", "onResult"} :
       LET start == IF isListening THEN <<>> ELSE Invoke(callbacks, "onStart", NoArg)
           result == Invoke(callbacks, "onResult", classified[text])
           fired == IF thrower = "onStart" THEN start ELSE start \o result
       IN  /\ thrower = "onStart" => start # <<>>
           /\ thrower = "onResult" => result # <<>>
           /\ isListening' = TRUE
           /\ endTimers' = IF thrower = "none" THEN Append(endTimers, ReadsCurrent)
                           ELSE endTimers
           /\ sess' = Observe(IF isListening THEN sess ELSE NewSession, fired)
           /\ last' = Done("simulateVoiceInput",
                           IF isListening THEN "listening" ELSE "forced",
                           NoCallbacks, text, fired, <<>>, "none", thrower # "none")
  /\ UNCHANGED <<env, speech, screen, flags, callbacks, webRecognition, initAwait, startPending,
                 rec, restartTimers>>

\* callbacks || this.callbacks (line 704)
activeCallbacks(given) == IF given = Undefined THEN callbacks ELSE given

\* forceSimulateVoiceInput that invokes onStart on every call
forceSimulateFiredAlwaysStarts(active, text) ==
  Invoke(active, "onStart", NoArg) \o Invoke(active, "onResult", classified[text])

\* what lines 723-758 invoke: onStart when the call had to force the
\* listening state, then onResult with the classification of text
forceSimulateFired(active, text) ==
  (IF isListening THEN <<>> ELSE Invoke(active, "onStart", NoArg))
    \o Invoke(active, "onResult", classified[text])

\* the listening flag when forceSimulateVoiceInput returns (724-726, 760)
forceSimulateListening == TRUE

\* lines 696-774; every callback is invoked inside its own try/catch, so a
\* throwing callback changes nothing here
ForceSimulateVoiceInput ==
  /\ \E text \in Texts :
     \E given \in CallbackArgs \cup {Undefined} :
       LET active == activeCallbacks(given)
           fired == forceSimulateFired(active, text)
       IN  /\ active["onEnd"] # 0 => Pending < MaxPending
           /\ callbacks' = active
           /\ SetFlags(ensureAvailable)
           /\ isListening' = forceSimulateListening
           /\ endTimers' = IF active["onEnd"] # 0
                           THEN Append(endTimers, active["onEnd"])
                           ELSE endTimers
           /\ sess' = Observe(IF isListening THEN sess ELSE NewSession, fired)
           /\ last' = Done("forceSimulateVoiceInput",
                           IF isListening THEN "listening" ELSE "forced",
                           given, text, fired, <<>>, "none", FALSE)
  /\ UNCHANGED <<env, speech, screen, webRecognition, initAwait, startPending, rec, restartTimers>>

\* the oldest 100 ms timer fires (685-690, 761-773): onEnd is invoked and
\* the listening state is left as it is; the session counters do not count
\* this delayed onEnd
EndTimer ==
  /\ endTimers # <<>>
  /\ endTimers' = Tail(endTimers)
  /\ LET fired == IF Head(endTimers) = ReadsCurrent
                  THEN Invoke(callbacks, "onEnd", NoArg)
                  ELSE << [cb |-> "onEnd", id |-> Head(endTimers), arg |-> NoArg] >>
     IN  last' = Done("endTimer", "-", NoCallbacks, <<>>, fired, <<>>, "none", FALSE)
  /\ UNCHANGED <<env, speech, screen, flags, isListening, callbacks, webRecognition, initAwait,
                 startPending, rec, restartTimers, sess>>

(***************************************************************************)
(* requestPermissions()                                                    *)
(***************************************************************************)
\* requestPermissions() whose inner catch (873-876) reports a denial
requestPermissionsDeniedOnThrow(outcome) ==
  IF useRealVoice /\ Voice
  THEN IF outcome = "true" THEN "true" ELSE "false"
  ELSE "true"

\* lines 858-896 read the mode once and change nothing; the awaited
\* Voice.isRecognitionAvailable() answers true, answers false or throws
requestPermissions(outcome) ==
  IF useRealVoice /\ Voice
  THEN IF outcome = "false" THEN "false" ELSE "true"
  ELSE "true"

RequestPermissions ==
  /\ \E outcome \in (IF useRealVoice /\ Voice THEN {"true", "false", "throws"}
                     ELSE {"true"}) :
       last' = Done("requestPermissions", outcome, NoCallbacks, <<>>, <<>>,
                    IF useRealVoice /\ Voice THEN <<"Voice.isRecognitionAvailable">>
                    ELSE <<>>,
                    requestPermissions(outcome), FALSE)
  /\ UNCHANGED <<env, speech, screen, flags, isListening, callbacks, webRecognition, initAwait,
                 startPending, rec, endTimers, restartTimers, sess>>

Next ==
  \/ Initialize
  \/ InitializeResume
  \/ EnsureAvailable
  \/ StartListening
  \/ StartListeningRejected
  \/ StopListening
  \/ ForceResetListeningState
  \/ Cleanup
  \/ BackendStart
  \/ BackendResults
  \/ BackendEnd
  \/ BackendError
  \/ RestartTimer
  \/ SimulateVoiceInput
  \/ ForceSimulateVoiceInput
  \/ EndTimer
  \/ RequestPermissions

Spec == Init /\ [][Next]_vars

SpecSessions == InitSessions /\ [][Next]_vars

(***************************************************************************)
(* processRecognizedText on its own: the transcripts it is applied to.     *)
(***************************************************************************)
\* the longest of the exhaustively enumerated short transcripts
MaxTextLen == 2

\* the letters of "ok", a capital, white space and punctuation
Alphabet == {"o", "k", "O", " ", "!"}

\* every transcript over Alphabet of at most MaxTextLen characters
ShortTexts == UNION { [1..n -> Alphabet] : n \in 0..MaxTextLen }

\* every phrase of the command table, as spoken
VariantTexts ==
  UNION { { validCommands[ci].variations[vi] :
              vi \in DOMAIN validCommands[ci].variations } :
          ci \in DOMAIN validCommands }

\* "let's go!", "I am ready to go ahead now", "uh what", "Uh What?", the
\* five phrases of getVoiceCommandsHelp ("Next", "Done", "Ready",
\* "Start Brushing", "Start Over"), and transcripts with punctuation, case
\* and white space in them or with a phrase inside them ("ne.xt", "O.K.")
ScenarioTexts ==
  {
    <<"l", "e", "t", "'", "s", " ", "g", "o", "!">>,
    <<"I", " ", "a", "m", " ", "r", "e", "a", "d", "y", " ", "t", "o", " ",
      "g", "o", " ", "a", "h", "e", "a", "d", " ", "n", "o", "w">>,
    <<"u", "h", " ", "w", "h", "a", "t">>,
    <<"U", "h", " ", "W", "h", "a", "t", "?">>,
    <<"N", "e", "x", "t">>,
    <<"D", "o", "n", "e">>,
    <<"R", "e", "a", "d", "y">>,
    <<"S", "t", "a", "r", "t", " ", "B", "r", "u", "s", "h", "i", "n", "g">>,
    <<"S", "t", "a", "r", "t", " ", "O", "v", "e", "r">>,
    <<"n", "e", ".", "x", "t">>,
    <<"n", "e", "x", "t", ".">>,
    <<" ", " ", "N", "E", "X", "T", " ", " ">>,
    <<"n", "e", "x", "t", " ", "p", "l", "e", "a", "s", "e">>,
    <<"f", "i", "n", "i", "s", "h", "e">>,
    <<"s", "t", "a", "r", "t", " ", "b", "r", "u", "s", "h">>,
    <<"o", "k", "a", "y", " ", "t", "h", "e", "n">>,
    <<"a", "l", "l", " ", " ", "d", "o", "n", "e", "!">>,
    <<"s", "t">>,
    <<"O", ".", "K", ".">> }

ClassifyInputs == ShortTexts \cup VariantTexts \cup ScenarioTexts

\* one call of processRecognizedText (lines 594-648); it reads the command
\* table only and changes nothing
ProcessRecognizedText ==
  /\ \E text \in ClassifyInputs :
       last' = [Done("processRecognizedText", "-", NoCallbacks, text, <<>>, <<>>,
                     "none", FALSE)
                  EXCEPT !.ret = processRecognizedText(text)]
  /\ UNCHANGED <<env, speech, screen, flags, isListening, callbacks, webRecognition, initAwait,
                 startPending, rec, endTimers, restartTimers, sess>>

ClassifyNext == ProcessRecognizedText

SpecClassify == Init /\ [][ClassifyNext]_vars

(***************************************************************************)
(* RoutineScreen, the caller of the service.                               *)
(***************************************************************************)
\* the phrases getVoiceCommandsHelp tells the user to say, each with the
\* intent of the same name
HelpPhrases ==
  { [phrase |-> <<"N", "e", "x", "t">>, intent |-> "next"],
    [phrase |-> <<"D", "o", "n", "e">>, intent |-> "done"],
    [phrase |-> <<"R", "e", "a", "d", "y">>, intent |-> "ready"],
    [phrase |-> <<"S", "t", "a", "r", "t", " ", "B", "r", "u", "s", "h", "i", "n", "g">>,
     intent |-> "start_brushing"],
    [phrase |-> <<"S", "t", "a", "r", "t", " ", "O", "v", "e", "r">>,
     intent |-> "start_over"] }

\* the branch handleVoiceResult takes for a command, on the conclusion step
\* or on another step
handleVoiceResult(isConclusion, command) ==
  IF isConclusion /\ command = "start_over" THEN "handleStartOver"
  ELSE IF command \in {"next", "done", "ready", "finish", "ok"} THEN "handleNextStep"
  ELSE IF command = "unknown" THEN "speakRetryMessage"
  ELSE "ignored"

\* routineSteps.length - 1: the id of the conclusion step, the only step
\* with isConclusion
LastStepId == 13

\* the closure kind of a step: what currentStep.isConclusion is in the
\* functions rendered for it
StepKind(id) == IF id = LastStepId THEN "conclusion" ELSE "step"

\* startListening timers (1000 ms after mount, 500 ms after speech) that may
\* be pending at the same time
MaxTimers == 2

Timers(t) == t.step + t.conclusion

\* the callbacks startListening passes to the service, and those
\* simulateVoiceCommand passes; none of them throws
listenCallbacks == [k \in Keys |-> 3]

commandCallbacks == [k \in Keys |-> 4]

\* the commands of the "Say ..." buttons
Commands == { <<"n", "e", "x", "t">>, <<"d", "o", "n", "e">>,
              <<"r", "e", "a", "d", "y">> }

\* The awaited speakForKids settles and speakCurrentStep goes on (lines
\* 80-102) in the closure of the step it was called for: after a normal end
\* (done or stopped) it sets the 500 ms timer unless the step is the
\* conclusion, after an error it sets it always.
Settled(utterance, rejected, timers) ==
  IF utterance = "none" THEN timers
  ELSE IF utterance = "step" THEN [timers EXCEPT !.step = @ + 1]
  ELSE IF rejected THEN [timers EXCEPT !.conclusion = @ + 1]
  ELSE timers

\* voiceService.stopListening() called by the screen, whose onEnd does not
\* throw: the outcomes, and the listening flag and the recognition after it
ScreenStopOutcomes == {o \in StopOutcomes : o.endThrows = 0}

screenStop(o) ==
  IF isListening
  THEN [isListening |-> stopListening(o).isListening, rec |-> stopListening(o).rec]
  ELSE [isListening |-> isListening, rec |-> rec]

ScreenStops ==
  \E o \in ScreenStopOutcomes :
     /\ isListening' = screenStop(o).isListening
     /\ rec' = screenStop(o).rec

\* The service as the screen finds it where neither the native library nor
\* a browser recognizer exists: the simulated mode.
InitRoutine == Init /\ ~Voice /\ ~WebSpeechRecognition

\* The first render and its two effects (lines 31-67): initialize() runs to
\* its end, speakCurrentStep stops listening and starts the utterance of
\* step 1, then the awaiting initializeVoiceService goes on: ensureAvailable
\* and the 1000 ms timer for startListening.
Mount ==
  /\ ~screen.mounted
  /\ Timers(screen.timers) < MaxTimers
  /\ ~(Voice /\ PlatformOS # "web")
  /\ \E webThrows \in BOOLEAN :
       LET m == initializeModes("skipped", webThrows)
       IN  IF isInitialized
           THEN /\ SetFlags(ensureAvailable)
                /\ UNCHANGED webRecognition
           ELSE /\ SetFlags([isAvailable |-> TRUE, isInitialized |-> TRUE,
                             useRealVoice |-> m.useRealVoice,
                             useWebSpeech |-> m.useWebSpeech])
                /\ webRecognition' = m.webRecognition
  /\ ScreenStops
  /\ screen' = [mounted |-> TRUE, currentStepId |-> 1, isSpeaking |-> TRUE,
                utterance |-> StepKind(1),
                timers |-> [screen.timers EXCEPT ![StepKind(1)] = @ + 1]]
  /\ last' = Done("RoutineScreen.mount", "-", NoCallbacks, <<>>, <<>>, <<>>,
                  "none", FALSE)
  /\ UNCHANGED <<env, speech, callbacks, initAwait, startPending, endTimers,
                 restartTimers, sess>>

\* A startListening timer fires (lines 106-158) in the closure of a step of
\* the given kind: ensureAvailable, nothing more on the conclusion step,
\* and otherwise voiceService.startListening whatever isSpeaking is.
ListenTimer ==
  /\ \E kind \in {"step", "conclusion"} :
       /\ screen.timers[kind] > 0
       /\ screen' = [screen EXCEPT !.timers[kind] = @ - 1]
       /\ IF kind = "conclusion"
          THEN /\ SetFlags(ensureAvailable)
               /\ last' = Done("RoutineScreen.startListening", "conclusion",
                               NoCallbacks, <<>>, <<>>, <<>>, "none", FALSE)
               /\ UNCHANGED <<isListening, callbacks, startPending, rec, sess>>
          ELSE /\ StartListeningBody("RoutineScreen.startListening", listenCallbacks)
               /\ Len(last'.fired) <= 1
               /\ ~last'.escaped
  /\ UNCHANGED <<env, speech, webRecognition, initAwait, endTimers, restartTimers>>

\* The utterance being spoken ends by itself (onDone) or fails (onError),
\* and the awaiting speakCurrentStep goes on.
UtteranceEnds ==
  /\ screen.utterance # "none"
  /\ Timers(screen.timers) < MaxTimers
  /\ \E rejected \in BOOLEAN :
       /\ screen' = [screen EXCEPT !.utterance = "none", !.isSpeaking = FALSE,
                                   !.timers = Settled(screen.utterance, rejected, @)]
       /\ last' = Done("speakForKids", IF rejected THEN "rejected" ELSE "resolved",
                       NoCallbacks, <<>>, <<>>, <<>>, "none", FALSE)
  /\ UNCHANGED <<env, speech, flags, isListening, callbacks, webRecognition, initAwait,
                 startPending, rec, endTimers, restartTimers, sess>>

\* handleNextStep off the last step (lines 210-232) and the render that
\* follows: stopListening, speechService.stop() (an utterance being spoken
\* stops, and its speakCurrentStep goes on and sets its timer), the step id
\* goes up by one, and the effect of lines 63-67 calls speakCurrentStep for
\* the new step.  The stopped speakCurrentStep clears isSpeaking before or
\* after the new one sets it.
NextStepScreen ==
  IF screen.currentStepId < LastStepId
  THEN {[mounted |-> TRUE, currentStepId |-> screen.currentStepId + 1,
         isSpeaking |-> spk,
         utterance |-> StepKind(screen.currentStepId + 1),
         timers |-> Settled(screen.utterance, FALSE, screen.timers)] :
          spk \in IF screen.utterance = "none" THEN {TRUE} ELSE BOOLEAN}
  ELSE \* getStepById finds no step: nothing is spoken (lines 63-67)
       {[mounted |-> TRUE, currentStepId |-> screen.currentStepId + 1,
         isSpeaking |-> IF screen.utterance = "none" THEN screen.isSpeaking
                        ELSE FALSE,
         utterance |-> "none",
         timers |-> Settled(screen.utterance, FALSE, screen.timers)]}

\* the "Next Step!" button (enabled while isSpeaking is false) or the
\* "Direct Next Step" button; both are shown for a step before the
\* conclusion step
PressNextStep ==
  /\ screen.mounted
  /\ screen.currentStepId < LastStepId
  /\ Timers(screen.timers) < MaxTimers
  /\ ScreenStops
  /\ screen' \in NextStepScreen
  /\ last' = Done("RoutineScreen.handleNextStep", "-", NoCallbacks, <<>>, <<>>,
                  <<>>, "none", FALSE)
  /\ UNCHANGED <<env, speech, flags, callbacks, webRecognition, initAwait, startPending,
                 endTimers, restartTimers, sess>>

\* A "Say ..." button (lines 242-289), shown off the conclusion step:
\* speech is stopped, ensureAvailable, and forceSimulateVoiceInput stores the
\* given callbacks, forces the listening state and hands the classified
\* command to handleVoiceResult, which for these commands is handleNextStep:
\* it stops listening again and moves to the next step.  The 100 ms timer of
\* forceSimulateVoiceInput is left pending.
SimulateVoiceCommand ==
  /\ screen.mounted
  /\ screen.currentStepId < LastStepId
  /\ Timers(screen.timers) < MaxTimers
  /\ Pending < MaxPending
  /\ \E command \in Commands :
       LET result == processRecognizedText(command)
       IN  /\ handleVoiceResult(FALSE, result.command) = "handleNextStep"
           /\ last' = Done("RoutineScreen.simulateVoiceCommand", "-",
                           commandCallbacks, command, <<>>, <<>>, "none", FALSE)
  /\ SetFlags(ensureAvailable)
  /\ callbacks' = activeCallbacks(commandCallbacks)
  /\ isListening' = FALSE
  /\ \E o \in ScreenStopOutcomes : rec' = stopListening(o).rec
  /\ endTimers' = Append(endTimers, commandCallbacks["onEnd"])
  /\ screen' \in NextStepScreen
  /\ UNCHANGED <<env, speech, webRecognition, initAwait, startPending,
                 restartTimers, sess>>

\* The "Start Over" button of the conclusion step (lines 234-239):
\* stopListening, speechService.stop(), and onStartOver() takes the screen
\* away.  Its pending timers stay.
PressStartOver ==
  /\ screen.mounted
  /\ screen.currentStepId = LastStepId
  /\ Timers(screen.timers) < MaxTimers
  /\ ScreenStops
  /\ screen' = [Unmounted EXCEPT
                  !.timers = Settled(screen.utterance, FALSE, screen.timers)]
  /\ last' = Done("RoutineScreen.handleStartOver", "-", NoCallbacks, <<>>, <<>>,
                  <<>>, "none", FALSE)
  /\ UNCHANGED <<env, speech, flags, callbacks, webRecognition, initAwait, startPending,
                 endTimers, restartTimers, sess>>

RoutineNext ==
  \/ Mount
  \/ ListenTimer
  \/ UtteranceEnds
  \/ PressNextStep
  \/ SimulateVoiceCommand
  \/ PressStartOver
  \/ EndTimer

SpecRoutine == InitRoutine /\ [][RoutineNext]_vars

\* The screen in a browser that has a speech recognizer.
InitRoutineVoice == Init /\ PlatformOS = "web" /\ WebSpeechRecognition

\* the step ids the model follows
MaxStepId == 14

\* The recognizer delivers a transcript (webRecognition.onresult, lines
\* 385-393) to the stored onResult, which is handleVoiceResult as rendered
\* when the callbacks were handed to the service.  Callbacks are handed over
\* only by functions rendered for a step before the conclusion step (lines
\* 113-115; the "Say ..." buttons are not shown on it), so in them
\* currentStep.isConclusion and isLastStep are false whatever the step is
\* now: a command of the next-step list runs handleNextStep, which stops
\* listening and speech and adds one to the step id; an unknown one runs
\* speakRetryMessage, which stops listening and speaks.
VoiceResult ==
  /\ screen.mounted
  /\ rec \in {"running", "stopping"}
  /\ rec' = "ending"
  /\ callbacks["onResult"] # 0
  /\ Timers(screen.timers) < MaxTimers
  /\ \E text \in Texts :
       LET branch == handleVoiceResult(FALSE, classified[text].command)
       IN  /\ branch \in {"handleNextStep", "speakRetryMessage"}
           /\ IF branch = "handleNextStep"
              THEN /\ screen.currentStepId < MaxStepId
                   /\ screen' \in NextStepScreen
              ELSE \E spk \in IF screen.utterance = "none" THEN {TRUE} ELSE BOOLEAN :
                     screen' = [screen EXCEPT
                                  !.isSpeaking = spk,
                                  !.utterance = "step",
                                  !.timers = Settled(screen.utterance, FALSE, @)]
           /\ last' = Done("RoutineScreen.handleVoiceResult", branch, NoCallbacks,
                           text, Invoke(callbacks, "onResult", classified[text]),
                           <<>>, "none", FALSE)
  /\ isListening' = FALSE
  /\ UNCHANGED <<env, speech, flags, callbacks, webRecognition, initAwait, startPending,
                 endTimers, restartTimers, sess>>

RoutineVoiceNext ==
  \/ Mount
  \/ ListenTimer
  \/ UtteranceEnds
  \/ PressNextStep
  \/ SimulateVoiceCommand
  \/ EndTimer
  \/ BackendStart
  \/ VoiceResult
  \/ BackendEnd
  \/ BackendError

SpecRoutineVoice == InitRoutineVoice /\ [][RoutineVoiceNext]_vars

(***************************************************************************)
(* speechService (speechService.ts) and the synthesizer behind it          *)
(***************************************************************************)
\* what the voice service and the screen hold, which speechService never
\* touches
beside == <<env, flags, isListening, callbacks, webRecognition, initAwait,
            startPending, rec, endTimers, restartTimers, sess, screen>>

\* the utterances the synthesizer holds
Held(sp) == {sp.synth[i].id : i \in DOMAIN sp.synth}

\* Speech.stop() of the synthesizer: it drops every utterance it holds and
\* will report onStopped for the one being spoken; whether it also reports
\* for those it had not begun differs between platforms (notifyQueued).
SpeechStop(sp, notifyQueued) ==
  [sp EXCEPT
     !.synth = <<>>,
     !.stopped = @ \cup {sp.synth[i].id : i \in
                           {j \in DOMAIN sp.synth :
                              sp.synth[j].started \/ notifyQueued}}]

\* stop() (lines 63-69): Speech.stop() is called only while isSpeaking, the
\* flag that onStart sets
stop(sp, notifyQueued) ==
  IF sp.isSpeaking
  THEN [SpeechStop(sp, notifyQueued) EXCEPT !.isSpeaking = FALSE]
  ELSE sp

\* a promise is settled once: resolve and reject of a settled one do nothing
Settle(promise, u, how) ==
  IF promise[u] = "pending" THEN [promise EXCEPT ![u] = how] ELSE promise

\* speak(text) (lines 17-58): this.stop(), then Speech.speak with the
\* callbacks of the new promise; a throw of Speech.speak is caught and
\* rejects the promise (lines 52-56)
speak(sp, notifyQueued, throws) ==
  LET st == stop(sp, notifyQueued)
      u == sp.issued + 1
  IN  IF throws
      THEN [st EXCEPT !.isSpeaking = FALSE, !.issued = u,
                      !.promise[u] = "rejected"]
      ELSE [st EXCEPT !.issued = u, !.promise[u] = "pending",
                      !.synth = Append(@, [id |-> u, started |-> FALSE])]

InitSpeech == Init /\ Voice /\ PlatformOS = "native"

Speak ==
  /\ speech.issued < MaxUtterances
  /\ \E notifyQueued \in BOOLEAN, throws \in BOOLEAN :
       /\ speech' = speak(speech, notifyQueued, throws)
       /\ last' = Done("speechService.speak",
                       IF throws THEN "threw" ELSE "issued", NoCallbacks,
                       <<>>, <<>>, <<>>, "none", FALSE)
  /\ UNCHANGED beside

Stop ==
  /\ \E notifyQueued \in BOOLEAN :
       speech' = stop(speech, notifyQueued)
  /\ last' = Done("speechService.stop",
                  IF speech.isSpeaking THEN "stopped" ELSE "-", NoCallbacks,
                  <<>>, <<>>, <<>>, "none", FALSE)
  /\ UNCHANGED beside

\* The synthesizer reports in the order things happen to it: what it was
\* told to stop before what it begins next.  It begins the oldest utterance
\* it holds: onStart (lines 28-30).
SynthStart ==
  /\ speech.stopped = {}
  /\ speech.synth # <<>>
  /\ ~speech.synth[1].started
  /\ speech' = [speech EXCEPT !.synth[1].started = TRUE, !.isSpeaking = TRUE]
  /\ last' = Done("onStart", "-", NoCallbacks, <<>>, <<>>, <<>>, "none", FALSE)
  /\ UNCHANGED beside

\* the utterance being spoken comes to its end: onDone (lines 31-35)
SynthDone ==
  /\ speech.stopped = {}
  /\ speech.synth # <<>>
  /\ speech.synth[1].started
  /\ speech' = [speech EXCEPT
                  !.synth = Tail(@), !.isSpeaking = FALSE,
                  !.promise = Settle(@, speech.synth[1].id, "resolved")]
  /\ last' = Done("onDone", "-", NoCallbacks, <<>>, <<>>, <<>>, "none", FALSE)
  /\ UNCHANGED beside

\* the report of a stopped utterance arrives: onStopped (lines 36-40)
SynthStopped ==
  /\ \E u \in speech.stopped :
       speech' = [speech EXCEPT
                    !.stopped = @ \ {u}, !.isSpeaking = FALSE,
                    !.promise = Settle(@, u, "resolved")]
  /\ last' = Done("onStopped", "-", NoCallbacks, <<>>, <<>>, <<>>, "none", FALSE)
  /\ UNCHANGED beside

\* the synthesizer fails on the oldest utterance it holds, begun or not:
\* onError (lines 41-45)
SynthError ==
  /\ speech.stopped = {}
  /\ speech.synth # <<>>
  /\ speech' = [speech EXCEPT
                  !.synth = Tail(@), !.isSpeaking = FALSE,
                  !.promise = Settle(@, speech.synth[1].id, "rejected")]
  /\ last' = Done("onError", "-", NoCallbacks, <<>>, <<>>, <<>>, "none", FALSE)
  /\ UNCHANGED beside

SpeechNext ==
  \/ Speak
  \/ Stop
  \/ SynthStart
  \/ SynthDone
  \/ SynthStopped
  \/ SynthError

SpecSpeech == InitSpeech /\ [][SpeechNext]_vars

(***************************************************************************)
(* Properties of startListening and stopListening                          *)
(***************************************************************************)
\* C1: a startListening(cb2) call made while already listening starts no
\* backend, fires no callback, leaves isListening true, and stores the
\* key-wise merge of the stored callbacks and cb2, in which cb2 wins on
\* every key it defines and the stored callback survives on the others.
C1_ReentrantStartMerges ==
  [][(last'.op = "startListening" /\ isListening) =>
       /\ isListening'
       /\ callbacks' = [k \in Keys |-> IF last'.arg[k] # 0 THEN last'.arg[k]
                                       ELSE callbacks[k]]
       /\ last'.fired = <<>>
       /\ last'.backend = <<>>
       /\ rec' = rec
       /\ startPending' = startPending]_vars

\* a reentrant startListening(cb2) after startListening(cb1): cb2's onResult
\* and onEnd replaced cb1's, and cb1's onStart and onError survived
C1_Witness ==
  /\ last.op = "startListening"
  /\ last.path = "alreadyListening"
  /\ last.arg = cb2
  /\ isListening
  /\ callbacks = [onStart |-> 1, onResult |-> 2, onError |-> 1, onEnd |-> 2]

\* C2, as stated: in every mode a stopListening() call made while listening
\* calls the active backend's stop, leaves isListening false and invokes the
\* registered onEnd within the call.
C2_StopFiresOnEndInEveryMode ==
  [][(last'.op = "stopListening" /\ isListening) =>
       /\ ~isListening'
       /\ (useRealVoice /\ Voice) => last'.backend = <<"Voice.stop">>
       /\ (~(useRealVoice /\ Voice) /\ useWebSpeech /\ webRecognition)
            => last'.backend = <<"webRecognition.stop">>
       /\ callbacks["onEnd"] # 0 =>
            \E i \in DOMAIN last'.fired : last'.fired[i].cb = "onEnd"]_vars

\* C2, amended: a stopListening() call made while listening leaves
\* isListening false in every mode.  In simulated mode it calls no backend
\* and invokes the registered onEnd within the call.  In native and browser
\* mode it calls the backend's stop, and when that returns normally it
\* invokes no callback: onEnd is left to the backend's end event, whose
\* handler invokes the registered onEnd.  Only when the backend's stop
\* throws is onEnd invoked within the call.
C2_StopFiresOnEndBySimulatedMode ==
  [][/\ (last'.op = "stopListening" /\ isListening) =>
          /\ ~isListening'
          /\ IF useRealVoice /\ Voice
             THEN /\ last'.backend = <<"Voice.stop">>
                  /\ last'.path = "stopped" => last'.fired = <<>>
             ELSE IF useWebSpeech /\ webRecognition
             THEN /\ last'.backend = <<"webRecognition.stop">>
                  /\ last'.path = "stopped" => last'.fired = <<>>
             ELSE /\ last'.backend = <<>>
                  /\ callbacks["onEnd"] # 0 =>
                       /\ last'.fired # <<>>
                       /\ \A i \in DOMAIN last'.fired :
                            last'.fired[i].cb = "onEnd"
          /\ last'.path # "stopped" =>
               (callbacks["onEnd"] # 0 => last'.fired # <<>>)
     /\ last'.op = "onSpeechEnd" =>
          /\ ~isListening'
          /\ last'.fired = Invoke(callbacks, "onEnd", NoArg)]_vars

\* the native backend was stopped with an onEnd registered, and the call
\* invoked nothing
C2_Witness ==
  /\ last.op = "stopListening"
  /\ last.path = "stopped"
  /\ last.backend = <<"Voice.stop">>
  /\ last.fired = <<>>
  /\ callbacks["onEnd"] # 0
  /\ ~isListening

\* C3: stopListening() is idempotent: a call made while not listening
\* changes no state and invokes no callback, and a call made while
\* listening ends not listening with onEnd invoked at most once for that
\* one transition.
C3_StopIdempotent ==
  [][last'.op = "stopListening" =>
       IF ~isListening
       THEN /\ last'.fired = <<>>
            /\ last'.backend = <<>>
            /\ UNCHANGED <<env, speech, screen, flags, isListening, callbacks, webRecognition,
                           initAwait, startPending, rec, endTimers,
                           restartTimers>>
       ELSE /\ ~isListening'
            /\ Cardinality({i \in DOMAIN last'.fired :
                              last'.fired[i].cb = "onEnd"}) <= 1]_vars

C5_SessionCallbackOrder == sess # "broken"

(***************************************************************************)
(* Properties of forceSimulateVoiceInput                                   *)
(***************************************************************************)
\* C6: forceSimulateVoiceInput(text, callbacks) called while not listening
\* fires onStart and then onResult with the classification of text ("next"
\* is the command next with confidence 0.95), and schedules onEnd for the
\* fixed delay later; it leaves isListening true, so a call made while
\* listening fires its onResult without onStart; the delayed onEnd, when it
\* fires, leaves the listening state as it is.
C6_ForceSimulateKeepsListening ==
  [][/\ last'.op = "forceSimulateVoiceInput" =>
          LET active == IF last'.arg = Undefined THEN callbacks ELSE last'.arg
              result == classified[last'.text]
          IN  /\ isListening'
              /\ last'.fired =
                   (IF isListening THEN <<>>
                    ELSE Invoke(active, "onStart", NoArg))
                   \o Invoke(active, "onResult", result)
              /\ last'.text = <<"n", "e", "x", "t">> =>
                   /\ result.command = "next"
                   /\ result.confidence = 95
              /\ endTimers' = IF active["onEnd"] # 0
                              THEN Append(endTimers, active["onEnd"])
                              ELSE endTimers
              /\ ~last'.escaped
     /\ last'.op = "endTimer" =>
          /\ isListening' = isListening
          /\ Len(last'.fired) <= 1
          /\ \A i \in DOMAIN last'.fired : last'.fired[i].cb = "onEnd"
          /\ Head(endTimers) # ReadsCurrent =>
               last'.fired = << [cb |-> "onEnd", id |-> Head(endTimers),
                                 arg |-> NoArg] >>]_vars

\* a second forceSimulateVoiceInput("next") made while the first one's
\* delayed onEnd is still pending: it fired onResult only
C6_Witness ==
  /\ last.op = "forceSimulateVoiceInput"
  /\ last.path = "listening"
  /\ last.text = <<"n", "e", "x", "t">>
  /\ Len(last.fired) = 1
  /\ last.fired[1].cb = "onResult"
  /\ last.fired[1].arg.command = "next"
  /\ Len(endTimers) = 2
  /\ isListening

(***************************************************************************)
(* Properties of initialize()                                              *)
(***************************************************************************)
\* C7: every initialize() call that has returned, returned true: whether the
\* native probe succeeded or failed, the browser recognizer constructed or
\* threw, or the call took the already-initialized path.
C7_InitializeReturnsTrue ==
  (last.op = "initialize" /\ last.path # "await") => last.ret = "true"

\* an initialize() call whose native probe failed returned true
C7_Witness ==
  /\ last.op = "initialize"
  /\ last.path = "nativeFailed"
  /\ last.ret = "true"

\* C8: initialize() leaves isAvailable true, and once isAvailable is true
\* only cleanup() makes it false: no start, stop, simulated input, reset,
\* permission request, backend event or timer does.
C8_AvailableUntilCleanup ==
  /\ []((last.op = "initialize" /\ last.path # "await") => isAvailable)
  /\ [][(isAvailable /\ last'.op # "cleanup") => isAvailable']_vars

\* Voice.start() threw in an initialized manager, which fell back to the
\* simulated mode and is still available
C8_Witness ==
  /\ last.op = "startListening"
  /\ last.path = "nativeFallback"
  /\ isInitialized
  /\ isAvailable
  /\ ~useRealVoice

\* C9: when an initialize() call probes and every probe of the call fails or
\* is skipped, the mode after the call is simulated: useRealVoice and
\* useWebSpeech are both false.
C9_AllProbesFailedSelectsSimulated ==
  (/\ last.op = "initialize"
   /\ \/ last.path \in {"nativeFailed", "webThrows"}
      \/ /\ last.path = "webConstructs"
         /\ ~(PlatformOS = "web" /\ WebSpeechRecognition))
    => (~useRealVoice /\ ~useWebSpeech)

\* C10, as stated: initialize() selects the first of native, browser,
\* simulated whose probe succeeds: when the native probe fails and the
\* browser recognizer is present the browser backend is selected, and
\* simulated is selected only when neither native nor browser is usable.
C10_FirstSuccessfulProbeInOrder ==
  (last.op = "initialize" /\ last.path \notin {"await", "cached"}) =>
    /\ last.path = "nativeOk" => (useRealVoice /\ ~useWebSpeech)
    /\ (last.path = "nativeFailed" /\ WebSpeechRecognition)
         => (useWebSpeech /\ ~useRealVoice)
    /\ (~useRealVoice /\ ~useWebSpeech) =>
         /\ last.path # "nativeOk"
         /\ ~(WebSpeechRecognition /\ last.path \in {"nativeFailed", "webConstructs"})

\* C10, amended: the probes are gated by the platform.  The native backend
\* is probed only off the web, when its library is loaded, and is selected
\* when its probe succeeds.  The browser backend is probed only on the web,
\* when the recognizer is defined, and is selected when it constructs; off
\* the web it is never selected, whatever the native probe did.  The mode
\* after the call is simulated only if no probe of the call succeeded.
C10_ProbesGatedByPlatform ==
  (last.op = "initialize" /\ last.path \notin {"await", "cached"}) =>
    /\ last.path \in {"nativeOk", "nativeFailed"} => (Voice /\ PlatformOS # "web")
    /\ last.path = "nativeOk" => (useRealVoice /\ ~useWebSpeech)
    /\ (last.path = "webConstructs" /\ PlatformOS = "web" /\ WebSpeechRecognition)
         => (useWebSpeech /\ ~useRealVoice /\ webRecognition)
    /\ PlatformOS # "web" => ~useWebSpeech
    /\ PlatformOS = "web" => ~useRealVoice
    /\ (~useRealVoice /\ ~useWebSpeech) =>
         /\ last.path # "nativeOk"
         /\ ~(last.path = "webConstructs" /\ PlatformOS = "web"
              /\ WebSpeechRecognition)

\* off the web the native probe failed while the browser recognizer is
\* defined, and the mode is simulated
C10_Witness ==
  /\ last.op = "initialize"
  /\ last.path = "nativeFailed"
  /\ PlatformOS # "web"
  /\ WebSpeechRecognition
  /\ ~useRealVoice
  /\ ~useWebSpeech

\* C11: initialize() is idempotent: on an initialized manager a call returns
\* the cached availability, probes nothing and changes no mode; and a call
\* made right after another initialize() call whose native probe is still
\* pending does not probe a second time.
C11_InitializeProbesOnce ==
  [][last'.op = "initialize" =>
       /\ isInitialized =>
            /\ last'.path = "cached"
            /\ last'.backend = <<>>
            /\ last'.ret = (IF isAvailable THEN "true" ELSE "false")
            /\ UNCHANGED <<flags, webRecognition, initAwait>>
       /\ (last.op = "initialize" /\ last.path = "await" /\ initAwait > 0)
            => last'.path # "await"]_vars

\* C12: in every reachable state at most one backend mode is active:
\* useRealVoice and useWebSpeech are never both true.
C12_AtMostOneMode == ~(useRealVoice /\ useWebSpeech)

\* on the web with the native library loaded, initialize() selected the
\* browser backend and only that one
C12_Witness ==
  /\ last.op = "initialize"
  /\ last.path = "webConstructs"
  /\ Voice
  /\ useWebSpeech
  /\ ~useRealVoice

\* C13, as stated: startListening called while the manager is not available
\* invokes no onError, makes the manager available in simulated mode and
\* starts a listening session: isListening is true and the registered
\* onStart was fired.
C13_UnavailableStartBeginsSession ==
  [][(last'.op = "startListening" /\ ~isAvailable) =>
       /\ isAvailable'
       /\ ~useRealVoice'
       /\ ~useWebSpeech'
       /\ isListening'
       /\ \A i \in DOMAIN last'.fired : last'.fired[i].cb # "onError"
       /\ last'.arg["onStart"] # 0 =>
            \E i \in DOMAIN last'.fired :
              /\ last'.fired[i].cb = "onStart"
              /\ last'.fired[i].id = last'.arg["onStart"]]_vars

\* C13, amended: startListening called while the manager is not available
\* invokes no onError, makes the manager available and initialized in
\* simulated mode, whatever mode an earlier initialization had left, and
\* leaves isListening true.  If the manager was not listening it stores the
\* given callbacks, calls no backend and fires the given onStart, and an
\* exception leaves the call only after onStart was invoked twice.  If the
\* manager was already listening (a simulated input on an unavailable
\* manager makes it so) it fires nothing and only merges the callbacks.
C13_UnavailableStartForcesSimulated ==
  [][(last'.op = "startListening" /\ ~isAvailable) =>
       /\ last'.ensured
       /\ isAvailable'
       /\ isInitialized'
       /\ ~useRealVoice'
       /\ ~useWebSpeech'
       /\ isListening'
       /\ last'.backend = <<>>
       /\ \A i \in DOMAIN last'.fired :
            /\ last'.fired[i].cb = "onStart"
            /\ last'.fired[i].id = last'.arg["onStart"]
       /\ IF isListening
          THEN /\ last'.fired = <<>>
               /\ \A k \in Keys :
                    callbacks'[k] = (IF last'.arg[k] # 0 THEN last'.arg[k]
                                     ELSE callbacks[k])
          ELSE /\ callbacks' = last'.arg
               /\ last'.arg["onStart"] # 0 => last'.fired # <<>>
               /\ last'.escaped => Len(last'.fired) = 2]_vars

\* startListening forced the availability of a manager whose native library
\* is loaded, and started a simulated session with onStart fired
C13_Witness ==
  /\ last.op = "startListening"
  /\ last.ensured
  /\ last.path = "simulated"
  /\ Voice
  /\ PlatformOS # "web"
  /\ Len(last.fired) = 1
  /\ last.fired[1].cb = "onStart"
  /\ isAvailable
  /\ isListening

\* C14: startListening(cb) called while not listening replaces the stored
\* callbacks wholesale by cb, sets isListening true and runs the start path
\* of the active backend exactly once: one Voice.start, one
\* webRecognition.start, or in simulated mode one invocation of onStart.
C14_StartReplacesAndStartsOnce ==
  [][(last'.op = "startListening" /\ ~isListening) =>
       /\ callbacks' = last'.arg
       /\ isListening'
       /\ IF isAvailable /\ useRealVoice /\ Voice
          THEN last'.backend = <<"Voice.start">>
          ELSE IF isAvailable /\ useWebSpeech /\ webRecognition
          THEN last'.backend = <<"webRecognition.start">>
          ELSE /\ last'.backend = <<>>
               /\ Cardinality({i \in DOMAIN last'.fired :
                                 last'.fired[i].cb = "onStart"})
                    = (IF last'.arg["onStart"] # 0 THEN 1 ELSE 0)]_vars

\* C15: when the native or browser backend fails as startListening starts
\* it (start throws, or the awaited Voice.start rejects), the mode becomes
\* simulated, the registered onStart is fired, the manager is listening
\* afterwards, and onError is not invoked.
C15_StartFailureFallsBackListening ==
  [][(\/ /\ last'.op \in {"startListening", "restartTimer"}
         /\ last'.path \in {"nativeFallback", "webFallback"}
      \/ last'.op = "startListeningRejected") =>
       /\ ~useRealVoice'
       /\ ~useWebSpeech'
       /\ isListening'
       /\ \A i \in DOMAIN last'.fired : last'.fired[i].cb = "onStart"
       /\ callbacks'["onStart"] # 0 => last'.fired # <<>>]_vars

C17_EveryErrorReported ==
  [][last'.op = "onSpeechError" =>
       /\ ~isListening'
       /\ callbacks["onError"] # 0 =>
            /\ Len(last'.fired) = 1
            /\ last'.fired[1].cb = "onError"
            /\ last'.fired[1].arg.command \in {"No speech input", "other"}]_vars

\* C17, amended: every recognition error reported by the backend sets the
\* manager to not listening.  The native handler does not report a
\* no-speech error: it invokes no callback and schedules a restart one
\* second later.  Every other native error, and every browser error, invokes
\* the registered onError once with the error's message and schedules
\* nothing.
C17_ErrorReportedUnlessNativeNoSpeech ==
  [][last'.op = "onSpeechError" =>
       /\ ~isListening'
       /\ IF last'.path = "restartScheduled"
          THEN /\ PlatformOS # "web"
               /\ last'.fired = <<>>
               /\ restartTimers' = restartTimers + 1
          ELSE /\ restartTimers' = restartTimers
               /\ \E m \in {"No speech input", "other"} :
                    /\ m = "No speech input" => PlatformOS = "web"
                    /\ last'.fired = Invoke(callbacks, "onError", ErrorArg(m))]_vars

\* the native backend reported a no-speech error with an onError registered:
\* nothing was invoked and a restart is pending
C17_Witness ==
  /\ last.op = "onSpeechError"
  /\ last.path = "restartScheduled"
  /\ callbacks["onError"] # 0
  /\ last.fired = <<>>
  /\ restartTimers > 0
  /\ ~isListening

(***************************************************************************)
(* Properties of forceResetListeningState, cleanup and requestPermissions  *)
(***************************************************************************)
\* C18: after forceResetListeningState() returns, from any state, isListening
\* is false and the stored callbacks are empty, and the availability flags,
\* the mode flags and the recognizer are unchanged.
C18_ForceResetClearsSession ==
  [][(last'.op = "forceResetListeningState" /\ ~last'.escaped) =>
       /\ ~isListening'
       /\ callbacks' = NoCallbacks
       /\ UNCHANGED <<flags, webRecognition>>]_vars

\* forceResetListeningState() stopped a native session: Voice.stop was
\* called, the callbacks are gone and the mode is still native
C18_Witness ==
  /\ last.op = "forceResetListeningState"
  /\ last.path = "stopped"
  /\ last.backend = <<"Voice.stop">>
  /\ useRealVoice
  /\ isAvailable
  /\ callbacks = NoCallbacks
  /\ ~isListening

\* C19: after cleanup() returns, from any state, isListening, isInitialized
\* and isAvailable are false and the stored callbacks are empty, and
\* Voice.destroy was called if the native mode was active; an initialize()
\* call on a manager that is not initialized never takes the cached path.
C19_CleanupUninitializes ==
  [][/\ (last'.op = "cleanup" /\ ~last'.escaped) =>
          /\ ~isListening'
          /\ ~isInitialized'
          /\ ~isAvailable'
          /\ callbacks' = NoCallbacks
          /\ (useRealVoice /\ Voice) =>
               /\ last'.backend # <<>>
               /\ last'.backend[Len(last'.backend)] = "Voice.destroy"
     /\ (last'.op = "initialize" /\ ~isInitialized) =>
          last'.path # "cached"]_vars

\* cleanup() of a listening native manager: it stopped and destroyed the
\* backend and left the manager uninitialized
C19_Witness ==
  /\ last.op = "cleanup"
  /\ last.backend = <<"Voice.stop", "Voice.destroy">>
  /\ ~isListening
  /\ ~isInitialized
  /\ ~isAvailable
  /\ callbacks = NoCallbacks

\* C20: requestPermissions() returns true whenever the mode is simulated,
\* and returns false only when the native mode is active and the native
\* availability check answers false.
C20_PermissionsDeniedOnlyByNative ==
  last.op = "requestPermissions" =>
    /\ last.ret \in {"true", "false"}
    /\ (~useRealVoice /\ ~useWebSpeech) => last.ret = "true"
    /\ last.ret = "false" =>
         /\ useRealVoice
         /\ Voice
         /\ last.path = "false"
         /\ last.backend = <<"Voice.isRecognitionAvailable">>

\* in native mode the availability check answered false and
\* requestPermissions() returned false
C20_Witness ==
  /\ last.op = "requestPermissions"
  /\ useRealVoice
  /\ last.ret = "false"

\* C21: an event that arrives when its callback is not registered is dropped:
\* nothing is invoked, nothing is thrown, and the callbacks and flags stay
\* as they are; and no operation of the manager lets an exception escape to
\* its caller.
C21_NothingEscapes ==
  [][/\ ~last'.escaped
     /\ (last'.op = "onSpeechStart" /\ callbacks["onStart"] = 0)
          => (last'.fired = <<>> /\ UNCHANGED <<flags, callbacks, isListening>>)
     /\ (last'.op = "onSpeechResults" /\ callbacks["onResult"] = 0)
          => (last'.fired = <<>> /\ UNCHANGED <<flags, callbacks, isListening>>)
     /\ (last'.op = "onSpeechEnd" /\ callbacks["onEnd"] = 0)
          => (last'.fired = <<>> /\ ~isListening' /\ UNCHANGED <<flags, callbacks>>)
     /\ (last'.op = "onSpeechError" /\ callbacks["onError"] = 0)
          => (last'.fired = <<>> /\ ~isListening' /\ UNCHANGED <<flags, callbacks>>)
     /\ (last'.op = "forceSimulateVoiceInput" /\ callbacks'["onResult"] = 0)
          => \A i \in DOMAIN last'.fired : last'.fired[i].cb # "onResult"]_vars

(***************************************************************************)
(* Properties of processRecognizedText.  The words of the statements:      *)
(* the call made, the normalized text (lower case, the characters .,!?;    *)
(* turned into spaces, white space collapsed, trimmed), the phrases of a   *)
(* category, the intents that list a phrase, and "part occurs in text".    *)
(***************************************************************************)
Classified == last.op = "processRecognizedText"

Normalized(text) ==
  LET lower == [i \in 1..Len(text) |-> toLowerCaseChar(text[i])]
      blank == [i \in 1..Len(lower) |->
                  IF lower[i] \in Punctuation \cup WhiteSpace THEN " " ELSE lower[i]]
      kept  == {i \in 1..Len(blank) :
                  /\ blank[i] = " " => (i > 1 /\ blank[i-1] # " ")
                  /\ blank[i] = " " => \E j \in (i+1)..Len(blank) : blank[j] # " "}
      pick[i \in 0..Len(blank)] ==
        IF i = 0 THEN <<>>
        ELSE IF i \in kept THEN Append(pick[i-1], blank[i]) ELSE pick[i-1]
  IN  pick[Len(blank)]

PhrasesOf(ci) ==
  { validCommands[ci].variations[vi] : vi \in DOMAIN validCommands[ci].variations }

IntentsOf(phrase) ==
  { validCommands[ci].command :
      ci \in {cj \in DOMAIN validCommands : phrase \in PhrasesOf(cj)} }

Within(part, text) ==
  \E i \in 0..(Len(text) - Len(part)) :
     \A k \in 1..Len(part) : text[i + k] = part[k]

\* the categories with a phrase that occurs in the text
Containing(text) ==
  {ci \in DOMAIN validCommands : \E phrase \in PhrasesOf(ci) : Within(phrase, text)}

\* C23: an input whose normalized text equals a phrase of the command table
\* is classified with an intent that lists that phrase, with confidence 0.95.
C23_ExactPhraseGetsItsIntent ==
  Classified =>
    LET c == Normalized(last.text)
    IN  IntentsOf(c) # {} =>
          /\ last.ret.command \in IntentsOf(c)
          /\ last.ret.confidence = 95

\* C24: an input whose normalized text contains a phrase of the table and
\* equals none is classified with confidence 0.8 and the intent of the first
\* category, in table order, that has a phrase occurring in the text.
C24_ContainmentGetsFirstCategory ==
  Classified =>
    LET c == Normalized(last.text)
    IN  (Containing(c) # {} /\ IntentsOf(c) = {}) =>
          /\ last.ret.confidence = 80
          /\ last.ret.command =
               validCommands[CHOOSE ci \in Containing(c) :
                               \A cj \in Containing(c) : ci <= cj].command

\* C25: an input whose normalized text has at most 2 characters, equals no
\* phrase and contains none is classified unknown with confidence 0.0, also
\* when it occurs inside a phrase, and also when it is empty.
C25_ShortTextIsUnknown ==
  Classified =>
    LET c == Normalized(last.text)
    IN  (Len(c) <= 2 /\ IntentsOf(c) = {} /\ Containing(c) = {}) =>
          /\ last.ret.command = "unknown"
          /\ last.ret.confidence = 0

\* "o" was classified: one letter that occurs inside "go", "ok", "done", ...
C25_Witness ==
  /\ Classified
  /\ last.text = <<"o">>
  /\ \E ci \in DOMAIN validCommands :
       \E phrase \in PhrasesOf(ci) : Within(Normalized(last.text), phrase)
  /\ last.ret.command = "unknown"

\* no phrase equals the text, occurs in it, or (text longer than 2) has it
\* inside
NoTierMatches(c) ==
  /\ IntentsOf(c) = {}
  /\ Containing(c) = {}
  /\ ~ (Len(c) > 2 /\ \E ci \in DOMAIN validCommands :
                        \E phrase \in PhrasesOf(ci) : Within(c, phrase))

\* C26: an input that matches no phrase under any of the three tiers is
\* classified {unknown, 0.0, the input as it was given}; "uh what" is one.
C26_NoMatchIsUnknownWithOriginalText ==
  Classified =>
    /\ NoTierMatches(Normalized(last.text)) =>
         last.ret = [command |-> "unknown", confidence |-> 0,
                     originalText |-> last.text]
    /\ last.text = <<"u", "h", " ", "w", "h", "a", "t">> =>
         /\ NoTierMatches(Normalized(last.text))
         /\ last.ret.command = "unknown"

\* "Uh What?" was classified: no tier matches, and the text is not in
\* normal form
C26_Witness ==
  /\ Classified
  /\ last.text = <<"U", "h", " ", "W", "h", "a", "t", "?">>
  /\ Normalized(last.text) # last.text
  /\ NoTierMatches(Normalized(last.text))
  /\ last.ret.originalText = last.text

\* C27: "let's go!" is normalized to "let's go" and classified, by exact
\* match, {start_brushing, 0.95, "let's go!"}.
C27_LetsGoIsStartBrushing ==
  (Classified /\ last.text = <<"l", "e", "t", "'", "s", " ", "g", "o", "!">>) =>
    /\ Normalized(last.text) = <<"l", "e", "t", "'", "s", " ", "g", "o">>
    /\ last.ret = [command |-> "start_brushing", confidence |-> 95,
                   originalText |-> last.text]

ReadySentence ==
  <<"I", " ", "a", "m", " ", "r", "e", "a", "d", "y", " ", "t", "o", " ",
    "g", "o", " ", "a", "h", "e", "a", "d", " ", "n", "o", "w">>

\* C28 as stated: "I am ready to go ahead now" is classified ready with
\* confidence 0.8.
C28_ReadySentenceIsReady ==
  (Classified /\ last.text = ReadySentence) =>
    /\ last.ret.command = "ready"
    /\ last.ret.confidence = 80

\* C28: "I am ready to go ahead now" is classified next with confidence 0.8:
\* it contains "go", a phrase of next, and next is the first category of the
\* table; ready, whose phrases "ready" and "go ahead" it also contains, comes
\* later.
C28_ReadySentenceIsNext ==
  (Classified /\ last.text = ReadySentence) =>
    /\ last.ret = [command |-> "next", confidence |-> 80,
                   originalText |-> ReadySentence]
    /\ validCommands[1].command = "next"
    /\ <<"g", "o">> \in PhrasesOf(1)
    /\ Within(<<"g", "o">>, Normalized(last.text))
    /\ \E ci \in Containing(Normalized(last.text)) :
         /\ ci > 1
         /\ validCommands[ci].command = "ready"
         /\ Within(<<"g", "o", " ", "a", "h", "e", "a", "d">>,
                   Normalized(last.text))

\* the sentence was classified by containment
C28_Witness ==
  /\ Classified
  /\ last.text = ReadySentence
  /\ last.ret.confidence = 80

\* the text in lower case with the characters .,!?; taken out, white space
\* collapsed and trimmed
Stripped(text) ==
  Normalized(SelectSeq(text, LAMBDA ch : ch \notin Punctuation))

\* C29: an input is classified as the input without its punctuation
\* characters, in lower case and without redundant white space is: same
\* intent, same confidence.
C29_PunctuationCaseSpaceIgnored ==
  Classified =>
    LET plain == processRecognizedText(Stripped(last.text))
    IN  /\ last.ret.command = plain.command
        /\ last.ret.confidence = plain.confidence

\* C30: each phrase of the help text is classified to the intent of the same
\* name, and "Start Over" makes handleVoiceResult, on the conclusion step,
\* restart the routine.
C30_HelpPhrasesGetLikeNamedIntent ==
  Classified =>
    \A h \in HelpPhrases :
      last.text = h.phrase =>
        /\ last.ret.command = h.intent
        /\ h.intent = "start_over" =>
             handleVoiceResult(TRUE, last.ret.command) = "handleStartOver"

(***************************************************************************)
(* Properties of RoutineScreen.                                            *)
(***************************************************************************)
\* C22: while an utterance started by the screen is being spoken, the
\* service is not listening (so no listening session is started then
\* either), whatever the order of the timers and the buttons.
C22_SpeakingExcludesListening == screen.utterance # "none" => ~isListening

(***************************************************************************)
(* Properties of late events, pending timers and the mode.                 *)
(***************************************************************************)
\* the step invokes a callback registered under the key
Delivers(key) == \E i \in 1..Len(last'.fired) : last'.fired[i].cb = key

\* C31: a step that invokes onResult leaves the manager listening: no
\* transcript reaches the caller after stopListening, a reset or the
\* backend's end event made the manager not listening.
C31_NoResultWhenNotListening ==
  [][Delivers("onResult") => isListening']_vars

\* C32: when startListening has begun a session while the recognition of a
\* stopped session was still winding down, the end or error event of that
\* old recognition leaves the manager listening and invokes no callback of
\* the new session.
C32_OldEventSparesNewSession ==
  [][(/\ last.op = "startListening"
      /\ isListening
      /\ rec = "stopping"
      /\ last'.op \in {"onSpeechEnd", "onSpeechError"})
       => (isListening' /\ last'.fired = <<>>)]_vars

\* C33: when the caller has just stopped, reset or disposed the manager, the
\* pending restart timer of an earlier no-speech error does not make it
\* listening again, and after dispose does not make it available again.
C33_StoppedUntilCallerStarts ==
  [][(/\ last.op \in {"stopListening", "forceResetListeningState", "cleanup"}
      /\ ~last.escaped
      /\ last'.op = "restartTimer")
       => (/\ ~isListening'
           /\ last.op = "cleanup" => ~isAvailable')]_vars

\* C34: when forceResetListeningState or cleanup has just cleared the
\* callbacks, a 100 ms timer of an earlier simulateVoiceInput or
\* forceSimulateVoiceInput that fires next invokes no callback.
C34_NoCallbackAfterReset ==
  [][(/\ last.op \in {"forceResetListeningState", "cleanup"}
      /\ ~last.escaped
      /\ callbacks = NoCallbacks
      /\ last'.op = "endTimer")
       => last'.fired = <<>>]_vars

\* neither mode flag is set: the backend mode is simulated
SimulatedMode == ~useRealVoice /\ ~useWebSpeech

\* C35: a step that takes the manager out of the simulated mode is a step
\* of initialize(); on an initialized manager it is the resumption of an
\* initialize() call that was pending, so that without one only cleanup()
\* and a new initialize() lead back to native or browser.
C35_DemotionIsOneWay ==
  [][(SimulatedMode /\ ~SimulatedMode')
       => (/\ last'.op = "initialize"
           /\ isInitialized => (initAwait > 0 /\ initAwait' = initAwait - 1))]_vars

\* a session was started on the simulated path of a manager that has a
\* browser recognizer: it was demoted before and is still simulated
C35_Witness ==
  /\ last.op = "startListening"
  /\ last.path = "simulated"
  /\ webRecognition
  /\ isInitialized
  /\ SimulatedMode

\* C36: between operations isInitialized and isAvailable are equal, and an
\* initialize() call that took the already-initialized path returned true.
C36_InitializedIffAvailable ==
  /\ isInitialized = isAvailable
  /\ (last.op = "initialize" /\ last.path = "cached") =>
       (isInitialized /\ last.ret = "true")

\* initialize() took the already-initialized path
C36_Witness ==
  /\ last.op = "initialize"
  /\ last.path = "cached"
  /\ isInitialized
  /\ isAvailable

(***************************************************************************)
(* Properties of processRecognizedText: priority and shape of the result.  *)
(***************************************************************************)
\* the phrase matches the normalized text under one of the three tiers
Matches(c, phrase) ==
  \/ c = phrase
  \/ Within(phrase, c)
  \/ Within(c, phrase) /\ Len(c) > 2

\* the confidence of the tier under which a matching phrase matches
TierOf(c, phrase) ==
  IF c = phrase THEN 95 ELSE IF Within(phrase, c) THEN 80 ELSE 70

\* the categories with a phrase that matches
Matching(c) ==
  {ci \in DOMAIN validCommands : \E phrase \in PhrasesOf(ci) : Matches(c, phrase)}

C40_ResultShape ==
  Classified =>
    /\ last.ret.confidence \in {0, 70, 80, 95}
    /\ last.ret.confidence = 0 <=> last.ret.command = "unknown"
    /\ last.ret.command \in
         {"unknown"} \cup {validCommands[ci].command : ci \in DOMAIN validCommands}
    /\ last.ret.originalText = last.text

\* a reverse match was returned
C40_Witness ==
  /\ Classified
  /\ last.ret.confidence = 70
  /\ last.ret.command # "unknown"
  /\ last.ret.originalText = last.text

\* C37: the current step id of the screen names a step, at least 1 and at
\* most the id of the conclusion step, after every step taken while the
\* service is listening in browser mode and the recognition of the
\* listening session is running: a press, a simulated command, or a voice
\* result of that session handed to its callbacks.
C37_StepIdNamesAStep ==
  [][(isListening /\ useWebSpeech /\ rec = "running")
       => screen'.currentStepId \in 1..LastStepId]_vars

\* C38: speak() leaves the synthesizer holding no utterance but the one it
\* has just issued, and stop() leaves it holding none, whether or not the
\* synthesizer has reported onStart for what it held.
C38_SpeakStopsEarlierUtterance ==
  [][/\ last'.op = "speechService.speak" => Held(speech') \subseteq {speech'.issued}
     /\ last'.op = "speechService.stop" => Held(speech') = {}]_vars

====
